---- MODULE Spec2Model ----
(***************************************************************************)
(* bun-ffi-gen: the AST resolver (src/src/parser.ts, parseClangAst), the   *)
(* layout oracle with its cache (clangGetSizeOf / clangGetOffsetOf) and    *)
(* the code generator (src/src/gen.ts, CodeGen).                           *)
(*                                                                         *)
(* A JavaScript string is a sequence of tokens: a token is a word (a       *)
(* maximal run of \w characters), one blank, or one punctuation sign.  The *)
(* regular expressions of the parser are modelled by what they match on    *)
(* such sequences.  A JavaScript object is a record of the heap, and a     *)
(* reference to it is its index in the heap (0 is undefined).              *)
(***************************************************************************)
EXTENDS Integers, Sequences, FiniteSets, TLC


\* ------------------------------------------------------------------ bounds

MaxStatements == 3
MaxMembers == 4
MaxCalls == 2

\* ------------------------------------------------------------- evaluation
\* A statement `const x = e; ...rest` of the source: e is evaluated once and
\* the rest sees its value.
Let(e, rest(_)) == CHOOSE y \in {rest(x) : x \in {e}} : TRUE

\* ----------------------------------------------------------------- strings

NoName == <<>>
SP == " "
Punct == {" ", "*", "[", "]", "(", ")", ","}
IsWord(t) == t \notin Punct

StartsWith(s, pre) == Len(s) >= Len(pre) /\ SubSeq(s, 1, Len(pre)) = pre
EndsWith(s, suf) == Len(s) >= Len(suf) /\ SubSeq(s, Len(s) - Len(suf) + 1, Len(s)) = suf
DropFirst(s, n) == SubSeq(s, n + 1, Len(s))

RECURSIVE TrimLeft(_)
TrimLeft(s) == IF s # <<>> /\ Head(s) = SP THEN TrimLeft(Tail(s)) ELSE s
RECURSIVE TrimRight(_)
TrimRight(s) == IF s # <<>> /\ s[Len(s)] = SP THEN TrimRight(SubSeq(s, 1, Len(s) - 1)) ELSE s
Trim(s) == TrimLeft(TrimRight(s))

\* Number(str) and `${n}` on the decimal words 0..99; Number of any other
\* word is NaN, which -1 stands for (no size or length is negative).
NaN == -1
Decimals ==
    <<"0", "1", "2", "3", "4", "5", "6", "7", "8", "9",
      "10", "11", "12", "13", "14", "15", "16", "17", "18", "19",
      "20", "21", "22", "23", "24", "25", "26", "27", "28", "29",
      "30", "31", "32", "33", "34", "35", "36", "37", "38", "39",
      "40", "41", "42", "43", "44", "45", "46", "47", "48", "49",
      "50", "51", "52", "53", "54", "55", "56", "57", "58", "59",
      "60", "61", "62", "63", "64", "65", "66", "67", "68", "69",
      "70", "71", "72", "73", "74", "75", "76", "77", "78", "79",
      "80", "81", "82", "83", "84", "85", "86", "87", "88", "89",
      "90", "91", "92", "93", "94", "95", "96", "97", "98", "99">>
Number(t) ==
    IF \E i \in 1..Len(Decimals) : Decimals[i] = t
    THEN (CHOOSE i \in 1..Len(Decimals) : Decimals[i] = t) - 1
    ELSE NaN
NumberToString(n) == IF n = NaN THEN "NaN" ELSE Decimals[n + 1]
Times(a, b) == IF a = NaN \/ b = NaN THEN NaN ELSE a * b

\* qualType.trim().match(/^([\w\W]+)\[(\w+)\]$/)
StaticArrayMatch(q) ==
    Let(Trim(q), LAMBDA t :
        IF Len(t) >= 4 /\ t[Len(t)] = "]" /\ IsWord(t[Len(t) - 1]) /\ t[Len(t) - 2] = "["
        THEN [ok |-> TRUE, base |-> SubSeq(t, 1, Len(t) - 3), len |-> t[Len(t) - 1]]
        ELSE [ok |-> FALSE, base |-> <<>>, len |-> ""])

\* qualType.match(/^const (?:struct\s)?(\w+) \*$/)
ConstPtrMatch(q) ==
    IF Len(q) = 7 /\ SubSeq(q, 1, 4) = <<"const", SP, "struct", SP>> /\ IsWord(q[5])
          /\ SubSeq(q, 6, 7) = <<SP, "*">>
    THEN [ok |-> TRUE, base |-> <<q[5]>>]
    ELSE IF Len(q) = 5 /\ SubSeq(q, 1, 2) = <<"const", SP>> /\ IsWord(q[3])
               /\ SubSeq(q, 4, 5) = <<SP, "*">>
         THEN [ok |-> TRUE, base |-> <<q[3]>>]
         ELSE [ok |-> FALSE, base |-> <<>>]

\* qualType.match(/^(?:struct\s)?([\w\W\s]+)\s?\*(?:const)?$/): the group is
\* greedy, so it keeps the blank that precedes the star.
PtrMatch(q) ==
    LET n == Len(q)
        star == IF n >= 1 /\ q[n] = "*" THEN n
                ELSE IF n >= 2 /\ q[n] = "const" /\ q[n - 1] = "*" THEN n - 1 ELSE 0
    IN  IF star < 2 THEN [ok |-> FALSE, base |-> <<>>]
        ELSE IF star > 3 /\ SubSeq(q, 1, 2) = <<"struct", SP>>
        THEN [ok |-> TRUE, base |-> SubSeq(q, 3, star - 1)]
        ELSE [ok |-> TRUE, base |-> SubSeq(q, 1, star - 1)]

\* statement.type.qualType.split("(")[0]
RECURSIVE BeforeParen(_)
BeforeParen(s) ==
    IF s = <<>> \/ Head(s) = "(" THEN <<>> ELSE <<Head(s)>> \o BeforeParen(Tail(s))

\* ------------------------------------------------------------------- nodes

POINTER_SIZE == 8

BuiltinNode(name, size, ffiType) ==
    [type |-> "builtin", name |-> name, size |-> size, ffiType |-> ffiType]
AliasNode(name, size, aliasTo, noEmit) ==
    [type |-> "alias", name |-> name, size |-> size, aliasTo |-> aliasTo, noEmit |-> noEmit]
PointerNode(name, baseType, is_const) ==
    [type |-> "pointer", name |-> name, size |-> POINTER_SIZE, baseType |-> baseType,
     is_const |-> is_const]
EnumNode(name, fields) ==
    [type |-> "enum", name |-> name, size |-> 4, fields |-> fields]
StructNode(name, size, fields) ==
    [type |-> "struct", name |-> name, size |-> size, fields |-> fields]
\* A union node sized by its largest variant instead of by the oracle.
UnionNodeSizedByVariants(size, variants) ==
    [type |-> "union", name |-> NoName,
     size |-> IF variants = <<>> THEN 0
              ELSE CHOOSE m \in {variants[i].size : i \in 1..Len(variants)} :
                       \A i \in 1..Len(variants) : variants[i].size <= m,
     variants |-> variants]
UnionNode(size, variants) ==
    [type |-> "union", name |-> NoName, size |-> size, variants |-> variants]
StaticArrayNode(name, length, itemType, size) ==
    [type |-> "static_array", name |-> name, size |-> size, length |-> length,
     itemType |-> itemType]
FuncDeclNode(name, returnType, args) ==
    [type |-> "func_decl", name |-> name, size |-> POINTER_SIZE, returnType |-> returnType,
     args |-> args]
FuncPointerNode(name, decl) ==
    [type |-> "func_pointer", name |-> name, size |-> POINTER_SIZE, decl |-> decl]

\* A Map kept as the sequence of its entries in insertion order: set() of a
\* key that is present replaces the value in place.
MapHas(m, key) == \E i \in 1..Len(m) : m[i].name = key
MapIndex(m, key) == CHOOSE i \in 1..Len(m) : m[i].name = key
\* A map whose set keeps the entry a key already has.
MapSetIfAbsent(m, key, entry) == IF MapHas(m, key) THEN m ELSE Append(m, entry)
MapSet(m, key, entry) ==
    IF MapHas(m, key) THEN [m EXCEPT ![MapIndex(m, key)] = entry] ELSE Append(m, entry)
MapGet(m, key) == m[MapIndex(m, key)]

\* ------------------------------------------------------- resolver context
\* The mutable state parseClangAst works on: the heap of nodes, result.decls,
\* lazyAliases, the two symbol sets, the oracle's cache and the log of the
\* compiler probes; err is the message of the Error thrown, "" when none.
\* A function of the source is an operator from the context to the context
\* it leaves and the value it returns.

HEADER == "test.h"
NoErr == ""
Ret(c, v) == [c |-> c, v |-> v]
Throw(c, e) == [c |-> [c EXCEPT !.err = e], v |-> 0]
\* `const x = f(...); ...rest`, where f may throw: rest is skipped then.
Then(r, rest(_)) == Let(r, LAMBDA x : IF x.c.err # NoErr THEN x ELSE rest(x))
\* A new object: the heap grows by the node, the reference is its index.
Alloc(c, node) == Let(c, LAMBDA x : Ret([x EXCEPT !.heap = Append(@, node)], Len(x.heap) + 1))
Entry(name, id) == [name |-> name, id |-> id]

Min(S) == CHOOSE x \in S : \A y \in S : x <= y

\* emitBuiltinTypes: emitSimple / emitAlias write result.decls directly.
emitSimple(c, name, size, ffiType) ==
    Let(Alloc(c, BuiltinNode(name, size, ffiType)), LAMBDA a :
        [a.c EXCEPT !.decls = MapSet(@, name, Entry(name, a.v))])

emitAlias(c, name, aliasTo, noEmit) ==
    Let(MapGet(c.decls, aliasTo).id, LAMBDA foundAlias :
    Let(Alloc(c, AliasNode(name, c.heap[foundAlias].size, foundAlias, noEmit)), LAMBDA a :
        [a.c EXCEPT !.decls = MapSet(@, name, Entry(name, a.v))]))

SimpleTypes ==
    << <<<<"int8_t">>, 1, "BunFFIType.int8_t">>,
       <<<<"int16_t">>, 2, "BunFFIType.int16_t">>,
       <<<<"int32_t">>, 4, "BunFFIType.int32_t">>,
       <<<<"int64_t">>, 8, "BunFFIType.int64_t">>,
       <<<<"uint8_t">>, 1, "BunFFIType.uint8_t">>,
       <<<<"uint16_t">>, 2, "BunFFIType.uint16_t">>,
       <<<<"uint32_t">>, 4, "BunFFIType.uint32_t">>,
       <<<<"uint64_t">>, 8, "BunFFIType.uint64_t">>,
       <<<<"size_t">>, 8, "BunFFIType.uint64_t">>,
       <<<<"ssize_t">>, 8, "BunFFIType.int64_t">>,
       <<<<"void">>, 0, "BunFFIType.void">>,
       <<<<"CString">>, 8, "BunFFIType.cstring">>,
       <<<<"float">>, 4, "BunFFIType.float">>,
       <<<<"double">>, 8, "BunFFIType.double">>,
       <<<<"opaque_pointer">>, POINTER_SIZE, "BunFFIType.pointer">> >>

AliasTypes ==
    << <<<<"char">>, <<"int8_t">>, TRUE>>,
       <<<<"unsigned", SP, "char">>, <<"uint8_t">>, TRUE>>,
       <<<<"int">>, <<"int32_t">>, TRUE>>,
       <<<<"short">>, <<"int16_t">>, TRUE>>,
       <<<<"unsigned", SP, "short">>, <<"uint16_t">>, TRUE>>,
       <<<<"unsigned", SP, "int">>, <<"uint32_t">>, TRUE>>,
       <<<<"long">>, <<"int64_t">>, TRUE>>,
       <<<<"long", SP, "long">>, <<"int64_t">>, TRUE>>,
       <<<<"unsigned", SP, "long", SP, "long">>, <<"uint64_t">>, TRUE>>,
       <<<<"unsigned", SP, "long">>, <<"uint64_t">>, TRUE>>,
       <<<<"u_int8_t">>, <<"uint8_t">>, FALSE>>,
       <<<<"u_int16_t">>, <<"uint16_t">>, FALSE>>,
       <<<<"u_int32_t">>, <<"uint32_t">>, FALSE>>,
       <<<<"u_int64_t">>, <<"uint64_t">>, FALSE>>,
       <<<<"__int8_t">>, <<"int8_t">>, FALSE>>,
       <<<<"__int16_t">>, <<"int16_t">>, FALSE>>,
       <<<<"__int32_t">>, <<"int32_t">>, FALSE>>,
       <<<<"__int64_t">>, <<"int64_t">>, FALSE>> >>

RECURSIVE EmitSimples(_, _)
EmitSimples(c, i) ==
    IF i > Len(SimpleTypes) THEN c
    ELSE Let(emitSimple(c, SimpleTypes[i][1], SimpleTypes[i][2], SimpleTypes[i][3]),
             LAMBDA c1 : EmitSimples(c1, i + 1))
RECURSIVE EmitAliases(_, _)
EmitAliases(c, i) ==
    IF i > Len(AliasTypes) THEN c
    ELSE Let(emitAlias(c, AliasTypes[i][1], AliasTypes[i][2], AliasTypes[i][3]),
             LAMBDA c1 : EmitAliases(c1, i + 1))

emitBuiltinTypes(c) == Let(EmitSimples(c, 1), LAMBDA c1 : EmitAliases(c1, 1))

\* emitDecl: set the entry, then promote the lazy alias stored under the same
\* key, if any, by a nested emitDecl.
RECURSIVE emitDecl(_, _, _)
emitDecl(c, name, id) ==
    Let([c EXCEPT !.decls = MapSet(@, name, Entry(name, id))], LAMBDA c1 :
        IF MapHas(c1.lazy, name)
        THEN Let(Alloc([c1 EXCEPT !.lazy = SelectSeq(@, LAMBDA l : l.name # name)],
                       AliasNode(MapGet(c1.lazy, name).alias, c1.heap[id].size, id, FALSE)),
                 LAMBDA a : emitDecl(a.c, MapGet(c1.lazy, name).alias, a.v))
        ELSE c1)

\* aliasDecl whose alias node has the size of a pointer.
aliasDeclSizedAsPointer(c, aliasTo) ==
    IF c.heap[aliasTo].type = "alias" /\ c.heap[aliasTo].noEmit
    THEN Ret(c, c.heap[aliasTo].aliasTo)
    ELSE Alloc(c, AliasNode(c.heap[aliasTo].name, POINTER_SIZE, aliasTo, FALSE))
aliasDecl(c, aliasTo) ==
    IF c.heap[aliasTo].type = "alias" /\ c.heap[aliasTo].noEmit
    THEN Ret(c, c.heap[aliasTo].aliasTo)
    ELSE Alloc(c, AliasNode(c.heap[aliasTo].name, c.heap[aliasTo].size, aliasTo, FALSE))

getDecl(c, name, makeAlias) ==
    IF ~MapHas(c.decls, name) THEN Throw(c, "decl not found")
    ELSE IF makeAlias THEN aliasDecl(c, MapGet(c.decls, name).id)
    ELSE Ret(c, MapGet(c.decls, name).id)

\* findDecl: the first value of result.decls, in insertion order, that the
\* predicate accepts; 0 (undefined) when there is none.
findDecl(c, pred(_), makeAlias) ==
    Let({i \in 1..Len(c.decls) : pred(c.heap[c.decls[i].id])}, LAMBDA hits :
        IF hits = {} THEN Ret(c, 0)
        ELSE IF makeAlias THEN aliasDecl(c, c.decls[Min(hits)].id)
        ELSE Ret(c, c.decls[Min(hits)].id))

\* findDecl({ name }, makeAlias)
findDeclByName(c, name, makeAlias) == findDecl(c, LAMBDA d : d.name = name, makeAlias)

\* A lookup that answers a missing name with a fresh opaque node of that name.
findDeclOrPlaceholder(c, name, makeAlias) ==
    Let(findDeclByName(c, name, makeAlias), LAMBDA found :
        IF found.v = 0 THEN Alloc(c, PointerNode(name, 0, FALSE)) ELSE found)
findDeclOrThrow(c, name, makeAlias) ==
    Let(findDeclByName(c, name, makeAlias), LAMBDA found :
        IF found.v = 0 THEN Throw(c, "not found") ELSE found)

RECURSIVE extractQualTypeOrPtr(_, _)
extractQualTypeOrPtr(c, qualType) ==
    IF EndsWith(qualType, <<"]">>)
    THEN Let(StaticArrayMatch(qualType), LAMBDA staticArrayMatch :
         IF ~staticArrayMatch.ok THEN Throw(c, "failed match static array type")
         ELSE Then(extractQualTypeOrPtr(c, Trim(staticArrayMatch.base)), LAMBDA itemType :
                   Alloc(itemType.c,
                         StaticArrayNode(qualType, Number(staticArrayMatch.len), itemType.v,
                                         Times(itemType.c.heap[itemType.v].size,
                                               Number(staticArrayMatch.len))))))
    ELSE IF qualType = <<"const", SP, "char", SP, "*">>
    THEN findDeclOrThrow(c, <<"CString">>, FALSE)
    ELSE LET constPtrMatch == ConstPtrMatch(qualType)
             ptrMatch == PtrMatch(qualType)
             isPtr == constPtrMatch.ok \/ ptrMatch.ok
             is_const == constPtrMatch.ok
             ptrBaseName == IF constPtrMatch.ok THEN constPtrMatch.base ELSE ptrMatch.base
         IN  IF isPtr
             THEN Let(findDecl(c, LAMBDA d : /\ d.type = "pointer"
                                             /\ d.is_const = is_const
                                             /\ ~(d.baseType # 0
                                                  /\ c.heap[d.baseType].name # ptrBaseName),
                               TRUE),
                      LAMBDA found :
                        IF found.v # 0 THEN found
                        ELSE Let(findDeclByName(c, ptrBaseName, TRUE), LAMBDA baseType :
                                 Alloc(baseType.c, PointerNode(NoName, baseType.v, TRUE))))
             ELSE findDeclOrThrow(c, qualType, TRUE)

\* ------------------------------------------------------------ layout oracle
\* What the compiler answers for the header: the size of each complete record
\* type and the offset and size of each of its members.  A probe of a type or
\* member the header does not define fails to compile.

FieldFact(offset, size) == [offset |-> offset, size |-> size]
Layouts ==
    (<<"Foo">> :> [size |-> 4, fields |-> (<<"x">> :> FieldFact(0, 4))])
    @@ (<<"S">> :> [size |-> 4, fields |-> (<<"x">> :> FieldFact(0, 4))])
    @@ (<<"Bar">> :> [size |-> 16, fields |-> (<<"a">> :> FieldFact(0, 8))
                                              @@ (<<"b">> :> FieldFact(8, 8))])
    @@ (<<"U">> :> [size |-> 16, fields |-> (<<"tag">> :> FieldFact(0, 4))
                                            @@ (<<"u">> :> FieldFact(8, 8))
                                            @@ (<<"w">> :> FieldFact(8, 8))])
    @@ (<<"L">> :> [size |-> 16, fields |-> (<<"a">> :> FieldFact(0, 4))
                                            @@ (<<"b">> :> FieldFact(4, 1))
                                            @@ (<<"c">> :> FieldFact(8, 8))])
    @@ (<<"Outer">> :> [size |-> 8, fields |-> (<<"inner">> :> FieldFact(0, 4))
                                               @@ (<<"tag">> :> FieldFact(4, 1))])
    @@ (<<"G">> :> [size |-> 80, fields |-> (<<"s">> :> FieldFact(0, 8))
                                            @@ (<<"a">> :> FieldFact(8, 16))
                                            @@ (<<"p">> :> FieldFact(24, 16))
                                            @@ (<<"c">> :> FieldFact(40, 8))
                                            @@ (<<"q">> :> FieldFact(48, 8))
                                            @@ (<<"v">> :> FieldFact(56, 4))
                                            @@ (<<"m">> :> FieldFact(60, 16))])
    @@ (<<"CString">> :> [size |-> 4, fields |-> (<<"x">> :> FieldFact(0, 4))])

SizeExprOfField(name, fieldName) ==
    <<"(sizeof ((">> \o name \o <<"*)0)->">> \o fieldName \o <<")">>

\* clangCompileAndRunReadOut for sizeof(cTypeName): -1 when the probe throws.
ProbeSizeOf(cTypeName) ==
    IF cTypeName \in DOMAIN Layouts THEN Layouts[cTypeName].size
    ELSE IF \E n \in DOMAIN Layouts : \E f \in DOMAIN Layouts[n].fields :
                cTypeName = SizeExprOfField(n, f)
    THEN LET n == CHOOSE n \in DOMAIN Layouts : \E f \in DOMAIN Layouts[n].fields :
                      cTypeName = SizeExprOfField(n, f)
             f == CHOOSE f \in DOMAIN Layouts[n].fields : cTypeName = SizeExprOfField(n, f)
         IN  Layouts[n].fields[f].size
    ELSE -1

\* clangCompileAndRunReadOut for the offset of a member: -1 when it throws.
ProbeOffsetOf(cTypeName, fieldName) ==
    IF cTypeName \in DOMAIN Layouts /\ fieldName \in DOMAIN Layouts[cTypeName].fields
    THEN Layouts[cTypeName].fields[fieldName].offset
    ELSE -1

SizeKey(cTypeName) == <<HEADER, "_qweqwe_">> \o cTypeName
OffsetKey(cTypeName, fieldName) ==
    <<HEADER, "_qweqwe_">> \o cTypeName \o <<"___q123213_">> \o fieldName

\* clangGetSizeOf without the test of the cache: every call probes.
clangGetSizeOfUncached(c, cTypeName) ==
    Let(ProbeSizeOf(cTypeName), LAMBDA result :
        IF result = -1
        THEN Throw([c EXCEPT !.probes = Append(@, SizeKey(cTypeName))], "probe failed")
        ELSE Ret([c EXCEPT !.probes = Append(@, SizeKey(cTypeName)),
                           !.sizeOf = (SizeKey(cTypeName) :> result) @@ @], result))
clangGetSizeOf(c, cTypeName) ==
    IF SizeKey(cTypeName) \in DOMAIN c.sizeOf THEN Ret(c, c.sizeOf[SizeKey(cTypeName)])
    ELSE Let(ProbeSizeOf(cTypeName), LAMBDA result :
         IF result = -1
         THEN Throw([c EXCEPT !.probes = Append(@, SizeKey(cTypeName))], "probe failed")
         ELSE Ret([c EXCEPT !.probes = Append(@, SizeKey(cTypeName)),
                            !.sizeOf = (SizeKey(cTypeName) :> result) @@ @], result))

\* clangGetOffsetOf that answers 0 where the probe fails.
clangGetOffsetOfOrZero(c, cTypeName, fieldName) ==
    IF OffsetKey(cTypeName, fieldName) \in DOMAIN c.offsetOf
    THEN Ret(c, c.offsetOf[OffsetKey(cTypeName, fieldName)])
    ELSE Let(ProbeOffsetOf(cTypeName, fieldName), LAMBDA result :
         IF result = -1
         THEN Ret([c EXCEPT !.probes = Append(@, OffsetKey(cTypeName, fieldName))], 0)
         ELSE Ret([c EXCEPT !.probes = Append(@, OffsetKey(cTypeName, fieldName)),
                            !.offsetOf = (OffsetKey(cTypeName, fieldName) :> result) @@ @],
                  result))
clangGetOffsetOf(c, cTypeName, fieldName) ==
    IF OffsetKey(cTypeName, fieldName) \in DOMAIN c.offsetOf
    THEN Ret(c, c.offsetOf[OffsetKey(cTypeName, fieldName)])
    ELSE Let(ProbeOffsetOf(cTypeName, fieldName), LAMBDA result :
         IF result = -1
         THEN Throw([c EXCEPT !.probes = Append(@, OffsetKey(cTypeName, fieldName))],
                    "probe failed")
         ELSE Ret([c EXCEPT !.probes = Append(@, OffsetKey(cTypeName, fieldName)),
                            !.offsetOf = (OffsetKey(cTypeName, fieldName) :> result) @@ @],
                  result))
\* -------------------------------------------------------------- enum values
\* An initializer expression of the declaration tree.
Expr(kind, value, opcode, refName, inner) ==
    [kind |-> kind, value |-> value, opcode |-> opcode, refName |-> refName, inner |-> inner]
IntegerLiteral(v) == Expr("IntegerLiteral", v, "", NoName, <<>>)
ConstantExpr(e) == Expr("ConstantExpr", "", "", NoName, <<e>>)
BinaryOperator(op, a, b) == Expr("BinaryOperator", "", op, NoName, <<a, b>>)
UnaryOperator(op, a) == Expr("UnaryOperator", "", op, NoName, <<a>>)
DeclRefExpr(name) == Expr("DeclRefExpr", "", "", name, <<>>)
ParenExpr(a) == Expr("ParenExpr", "", "", NoName, <<a>>)

EnumValue(type, value) == [type |-> type, value |-> value]
BadValue == EnumValue("error", <<>>)

\* parseEnumValue; an array is parsed as its first element.
RECURSIVE parseEnumValue(_)
parseEnumValue(ast) ==
    CASE ast.kind = "ConstantExpr" -> parseEnumValue(ast.inner[1])
      [] ast.kind = "IntegerLiteral" -> EnumValue("int", <<ast.value>>)
      [] ast.kind = "BinaryOperator" ->
            Let(parseEnumValue(ast.inner[1]), LAMBDA a :
            Let(parseEnumValue(ast.inner[2]), LAMBDA b :
                IF a.type = "error" \/ b.type = "error" THEN BadValue
                ELSE EnumValue("expr", <<"(", "(">> \o a.value \o <<")", SP, ast.opcode, SP, "(">>
                                        \o b.value \o <<")", ")">>)))
      [] ast.kind = "UnaryOperator" ->
            Let(parseEnumValue(ast.inner[1]), LAMBDA a :
                IF a.type = "error" THEN BadValue
                ELSE EnumValue("expr", <<"(", ast.opcode, SP>> \o a.value \o <<")">>))
      [] ast.kind = "DeclRefExpr" -> EnumValue("alias", ast.refName)
      [] ast.kind = "ParenExpr" ->
            Let(parseEnumValue(ast.inner[1]), LAMBDA a :
                IF a.type = "error" THEN BadValue
                ELSE EnumValue("expr", <<"(">> \o a.value \o <<")">>))
      [] OTHER -> BadValue

\* The member loop of an EnumDecl.  enumValueCounter is undefined (-2),
\* "no-counter" (-3) or a number; the result is the field Map, or the error.
Undefined == -2
NoCounter == -3
FieldEntry(name, value) == [name |-> name, value |-> value]

\* The counter after an explicit member, guessed as "not started" when the
\* value is no integer.
NextCounterGuessed(value) == IF value.type = "int" THEN Number(value.value[1]) ELSE Undefined
\* enumValueCounter after an explicit member of that value.
NextCounter(value) == IF value.type = "int" THEN Number(value.value[1]) ELSE NoCounter

RECURSIVE EnumMembers(_, _, _, _)
EnumMembers(inner, i, enumValueCounter, fields) ==
    IF i > Len(inner) THEN [err |-> NoErr, fields |-> fields]
    ELSE IF inner[i].kind = "FullComment"
    THEN EnumMembers(inner, i + 1, enumValueCounter, fields)
    ELSE IF inner[i].inner # <<>>
    THEN Let(parseEnumValue(inner[i].inner[1]), LAMBDA value :
             IF value.type = "error"
             THEN [err |-> "unknown enum value", fields |-> fields]
             ELSE Let(MapSet(fields, inner[i].name, FieldEntry(inner[i].name, value)),
                      LAMBDA set :
                        EnumMembers(inner, i + 1, NextCounter(value), set)))
    ELSE IF enumValueCounter = NoCounter
    THEN [err |-> "enum with mixed implicit & explicit declarations", fields |-> fields]
    ELSE Let(IF enumValueCounter = Undefined THEN 0 ELSE enumValueCounter, LAMBDA counter :
         Let(MapSet(fields, inner[i].name,
                    FieldEntry(inner[i].name, EnumValue("int", <<NumberToString(counter)>>))),
             LAMBDA set : EnumMembers(inner, i + 1, counter + 1, set)))

\* ---------------------------------------------------------- declaration tree
\* A node of a type's structure (the inner of a typedef or a prototype).
TypeAst(kind, qualType, declName, inner) ==
    [kind |-> kind, qualType |-> qualType, declName |-> declName, inner |-> inner]
Pos(line, col) == [line |-> line, col |-> col]
\* A member of a declaration: an enum constant, a field, a parameter, a
\* nested record or a comment.
Item(kind, name, qualType, tagUsed, loc, rangeBegin, inner) ==
    [kind |-> kind, name |-> name, qualType |-> qualType, tagUsed |-> tagUsed, loc |-> loc,
     rangeBegin |-> rangeBegin, inner |-> inner]
\* A top-level statement.  includedFrom is loc.includedFrom.file, NoName when
\* the node has none; an absent inner is the empty sequence.
Statement(kind, name, includedFrom, loc, rangeBegin, qualType, typeAliasDeclId, inner) ==
    [kind |-> kind, name |-> name, includedFrom |-> includedFrom, loc |-> loc,
     rangeBegin |-> rangeBegin, qualType |-> qualType, typeAliasDeclId |-> typeAliasDeclId,
     inner |-> inner]
\* astJson[statementIndex + 1] past the end of the array.
NoStatement == Statement("", NoName, NoName, Pos(0, 0), Pos(0, 0), NoName, FALSE, <<>>)
NoItem == Item("", NoName, NoName, "", Pos(0, 0), Pos(0, 0), <<>>)

headerFileBaseName == <<HEADER>>

filterStatement(statement) ==
    \/ statement.includedFrom # NoName /\ ~EndsWith(statement.includedFrom, headerFileBaseName)
    \/ /\ statement.kind = "TypedefDecl"
       /\ \/ /\ Len(statement.inner) = 1
             /\ statement.qualType = statement.inner[1].qualType
             /\ statement.inner[1].kind = "BuiltinType"
          \/ StartsWith(statement.name, <<"__NS">>)
          \/ StartsWith(statement.name, <<"__builtin_">>)
          \/ /\ statement.inner[1].kind = "ElaboratedType"
             /\ statement.name = statement.inner[1].inner[1].declName

FieldDesc(name, size, offset, valueType) ==
    [name |-> name, size |-> size, offset |-> offset, valueType |-> valueType]
Arg(name, valueType) == [name |-> name, valueType |-> valueType]

RECURSIVE UnionVariants(_, _, _, _)
UnionVariants(c, inner, i, variants) ==
    IF i > Len(inner) THEN Ret(c, variants)
    ELSE Then(extractQualTypeOrPtr(c, inner[i].qualType), LAMBDA fieldType :
              UnionVariants(fieldType.c, inner, i + 1,
                            Append(variants,
                                   FieldDesc(inner[i].name,
                                             fieldType.c.heap[fieldType.v].size, 0,
                                             fieldType.v))))

\* parseUnionDecl: the variants of the union, none of them with a size yet.
parseUnionDecl(c, unionDecl) == UnionVariants(c, unionDecl.inner, 1, <<>>)

\* The member loop of a RecordDecl.
RECURSIVE RecordMembers(_, _, _, _, _)
RecordMembers(c, name, inner, itemIndex, fields) ==
    IF itemIndex > Len(inner) THEN Ret(c, fields)
    ELSE IF inner[itemIndex].kind = "FullComment"
    THEN RecordMembers(c, name, inner, itemIndex + 1, fields)
    ELSE IF inner[itemIndex].tagUsed = "union" /\ inner[itemIndex].kind = "RecordDecl"
    THEN LET item == inner[itemIndex]
             nextItem == IF itemIndex + 1 <= Len(inner) THEN inner[itemIndex + 1] ELSE NoItem
             merge == /\ item.name = NoName
                      /\ nextItem.kind = "FieldDecl"
                      /\ nextItem.rangeBegin.line <= item.loc.line
                      /\ nextItem.rangeBegin.col <= item.loc.col
             itemName == IF merge THEN nextItem.name ELSE item.name
             nextIndex == IF merge THEN itemIndex + 2 ELSE itemIndex + 1
         IN  Then(parseUnionDecl(c, item), LAMBDA unionFieldType :
             Then(clangGetOffsetOf(unionFieldType.c, name, itemName), LAMBDA fieldOffset :
             Then(clangGetSizeOf(fieldOffset.c, SizeExprOfField(name, itemName)),
                  LAMBDA fieldSize :
             Let(Alloc(fieldSize.c, UnionNode(fieldSize.v, unionFieldType.v)), LAMBDA node :
                 RecordMembers(node.c, name, inner, nextIndex,
                               Append(fields, FieldDesc(itemName, fieldSize.v, fieldOffset.v,
                                                        node.v)))))))
    ELSE IF inner[itemIndex].kind # "FieldDecl" THEN Throw(c, "unknown field kind in struct")
    ELSE IF inner[itemIndex].name = NoName THEN Throw(c, "unknown field in struct")
    ELSE Then(clangGetOffsetOf(c, name, inner[itemIndex].name), LAMBDA fieldOffet :
         Then(extractQualTypeOrPtr(fieldOffet.c, inner[itemIndex].qualType), LAMBDA fieldType :
              RecordMembers(fieldType.c, name, inner, itemIndex + 1,
                            Append(fields,
                                   FieldDesc(inner[itemIndex].name,
                                             fieldType.c.heap[fieldType.v].size,
                                             fieldOffet.v, fieldType.v)))))

\* extractType of the function-pointer typedef branch.
RECURSIVE extractType(_, _)
extractType(c, ast) ==
    CASE ast.kind = "BuiltinType" -> getDecl(c, ast.qualType, FALSE)
      [] ast.kind = "TypedefType" -> getDecl(c, ast.declName, TRUE)
      [] ast.kind = "PointerType" ->
            IF ast.qualType = <<"const", SP, "char", SP, "*">>
            THEN getDecl(c, <<"CString">>, FALSE)
            ELSE extractQualTypeOrPtr(c, ast.qualType)
      [] ast.kind = "RecordType" -> findDeclOrThrow(c, ast.declName, TRUE)
      [] ast.kind = "ElaboratedType" -> extractType(c, ast.inner[1])
      [] ast.kind = "QualType" -> extractType(c, ast.inner[1])
      [] OTHER -> Throw(c, "unknown ast")

RECURSIVE ExtractArgs(_, _, _, _)
ExtractArgs(c, argsAst, i, args) ==
    IF i > Len(argsAst) THEN Ret(c, args)
    ELSE Then(extractType(c, argsAst[i]), LAMBDA valueType :
              ExtractArgs(valueType.c, argsAst, i + 1, Append(args, Arg(NoName, valueType.v))))

RECURSIVE ParmVarDecls(_, _, _, _)
ParmVarDecls(c, inner, i, args) ==
    IF i > Len(inner) THEN Ret(c, args)
    ELSE IF inner[i].kind # "ParmVarDecl" THEN ParmVarDecls(c, inner, i + 1, args)
    ELSE Then(extractQualTypeOrPtr(c, inner[i].qualType), LAMBDA type :
              ParmVarDecls(type.c, inner, i + 1, Append(args, Arg(inner[i].name, type.v))))

\* ------------------------------------------------- parseClangAst, main loop
\* One iteration of the loop over astJson: the context it leaves, the index of
\* the next statement being the value.

\* The enum branch with the name taken from a typedef at the enum or after it.
ParseEnumDeclNamedFromBelow(c, statement, nextStatement, statementIndex) ==
    LET adopt == /\ statement.name = NoName
                 /\ nextStatement.kind = "TypedefDecl"
                 /\ \/ nextStatement.rangeBegin.line > statement.loc.line
                    \/ /\ nextStatement.rangeBegin.line = statement.loc.line
                       /\ nextStatement.rangeBegin.col >= statement.loc.col
        name == IF adopt THEN nextStatement.name ELSE statement.name
        index == IF adopt THEN statementIndex + 1 ELSE statementIndex
    IN  IF statement.name = NoName /\ ~adopt THEN Ret(c, statementIndex + 1)
        ELSE Let(EnumMembers(statement.inner, 1, Undefined, <<>>), LAMBDA members :
             IF members.err # NoErr THEN Throw(c, members.err)
             ELSE Let(Alloc(c, EnumNode(name, members.fields)), LAMBDA enumItem :
                      Ret(emitDecl(enumItem.c, name, enumItem.v), index + 1)))
ParseEnumDecl(c, statement, nextStatement, statementIndex) ==
    LET adopt == /\ statement.name = NoName
                 /\ nextStatement.kind = "TypedefDecl"
                 /\ nextStatement.rangeBegin.line <= statement.loc.line
                 /\ nextStatement.rangeBegin.col <= statement.loc.col
        name == IF adopt THEN nextStatement.name ELSE statement.name
        index == IF adopt THEN statementIndex + 1 ELSE statementIndex
    IN  IF statement.name = NoName /\ ~adopt THEN Ret(c, statementIndex + 1)
        ELSE Let(EnumMembers(statement.inner, 1, Undefined, <<>>), LAMBDA members :
             IF members.err # NoErr THEN Throw(c, members.err)
             ELSE Let(Alloc(c, EnumNode(name, members.fields)), LAMBDA enumItem :
                      Ret(emitDecl(enumItem.c, name, enumItem.v), index + 1)))

ParseAliasTypedef(c, statement, statementIndex) ==
    Then(getDecl(c, statement.qualType, FALSE), LAMBDA aliasToType :
    Let(Alloc(aliasToType.c, AliasNode(statement.name, aliasToType.c.heap[aliasToType.v].size,
                                       aliasToType.v, FALSE)), LAMBDA aliasItem :
        Ret(emitDecl(aliasItem.c, statement.name, aliasItem.v), statementIndex + 1)))

ParseRecordDecl(c, statement, statementIndex) ==
    IF statement.inner = <<>> THEN Ret(c, statementIndex + 1)
    ELSE Then(clangGetSizeOf(c, statement.name), LAMBDA structSize :
         Then(RecordMembers(structSize.c, statement.name, statement.inner, 1, <<>>),
              LAMBDA fields :
         Let(Alloc(fields.c, StructNode(statement.name, structSize.v, fields.v)), LAMBDA item :
             Ret(emitDecl(item.c, statement.name, item.v), statementIndex + 1))))

IsFuncPointerTypedef(statement) ==
    /\ statement.kind = "TypedefDecl"
    /\ statement.inner # <<>>
    /\ statement.inner[1].kind = "PointerType"
    /\ statement.inner[1].inner # <<>>
    /\ statement.inner[1].inner[1].kind = "ParenType"
    /\ statement.inner[1].inner[1].inner # <<>>
    /\ statement.inner[1].inner[1].inner[1].kind = "FunctionProtoType"

ParseFuncPointerTypedef(c, statement, statementIndex) ==
    Then(extractType(c, statement.inner[1].inner[1].inner[1].inner[1]), LAMBDA returnType :
    Then(ExtractArgs(returnType.c, Tail(statement.inner[1].inner[1].inner[1].inner), 1, <<>>),
         LAMBDA args :
    Let(Alloc(args.c, FuncDeclNode(statement.name, returnType.v, args.v)), LAMBDA decl :
    Let(Alloc(decl.c, FuncPointerNode(statement.name, decl.v)), LAMBDA item :
    Let(emitDecl(item.c, statement.name, item.v), LAMBDA c1 :
        Ret([c1 EXCEPT !.ptrTypeSymbols = @ \cup {statement.name},
                       !.funcTypeSymbols = @ \cup {statement.name}],
            statementIndex + 1))))))

ParseOpaquePointerTypedef(c, statement, statementIndex) ==
    Let(Alloc(c, PointerNode(statement.name, 0, FALSE)), LAMBDA pointerItem :
        Ret(emitDecl(pointerItem.c, statement.name, pointerItem.v), statementIndex + 1))

ParseFunctionDecl(c, statement, statementIndex) ==
    Then(extractQualTypeOrPtr(c, Trim(BeforeParen(statement.qualType))), LAMBDA returnType :
    Then(ParmVarDecls(returnType.c, statement.inner, 1, <<>>), LAMBDA args :
    Let(Alloc(args.c, FuncDeclNode(NoName, returnType.v, args.v)), LAMBDA item :
        Ret(emitDecl(item.c, statement.name, item.v), statementIndex + 1))))

LazyAlias(name, aliasTo) == [name |-> name, alias |-> name, aliasTo |-> aliasTo]

\* The last typedef branch: the qualifier grammar inside try/catch, then the
\* lazy alias of a "struct X" target, else the statement is skipped.
ParseFallbackTypedef(c, statement, statementIndex) ==
    Let(extractQualTypeOrPtr(c, statement.qualType), LAMBDA aliasType :
        IF statement.qualType # NoName /\ aliasType.c.err = NoErr
        THEN Let(Alloc(aliasType.c, AliasNode(statement.name,
                                              aliasType.c.heap[aliasType.v].size,
                                              aliasType.v, FALSE)), LAMBDA item :
                 Ret(emitDecl(item.c, statement.name, item.v), statementIndex + 1))
        ELSE IF StartsWith(statement.qualType, <<"struct", SP>>)
        THEN Ret([c EXCEPT !.lazy = MapSet(@, statement.name,
                       LazyAlias(statement.name, DropFirst(statement.qualType, 2)))],
                 statementIndex + 1)
        ELSE Ret(c, statementIndex + 1))

ParseStatement(c, astJson, statementIndex) ==
    LET statement == astJson[statementIndex]
        nextStatement == IF statementIndex + 1 <= Len(astJson) THEN astJson[statementIndex + 1]
                         ELSE NoStatement
    IN  IF filterStatement(statement) THEN Ret(c, statementIndex + 1)
        ELSE IF statement.kind = "EnumDecl"
        THEN ParseEnumDecl(c, statement, nextStatement, statementIndex)
        ELSE IF statement.kind = "TypedefDecl" /\ statement.typeAliasDeclId
        THEN ParseAliasTypedef(c, statement, statementIndex)
        ELSE IF statement.kind = "RecordDecl"
        THEN ParseRecordDecl(c, statement, statementIndex)
        ELSE IF IsFuncPointerTypedef(statement)
        THEN ParseFuncPointerTypedef(c, statement, statementIndex)
        ELSE IF statement.kind = "TypedefDecl" /\ EndsWith(statement.qualType, <<SP, "*">>)
        THEN ParseOpaquePointerTypedef(c, statement, statementIndex)
        ELSE IF statement.kind = "FunctionDecl"
        THEN ParseFunctionDecl(c, statement, statementIndex)
        ELSE IF statement.kind = "TypedefDecl"
        THEN ParseFallbackTypedef(c, statement, statementIndex)
        ELSE Ret(c, statementIndex + 1)

\* ------------------------------------------------------------ code generator
\* CodeGen (src/src/gen.ts).  A text is a sequence of string pieces; a helper
\* that returns a string returns Ok(text), or Fail(message) when it throws.
\* The CodeGen object is its options o and the record t of out, failedSymbols
\* and err, the message of the Error the running method threw ("" when none).

Ok(text) == [ok |-> TRUE, text |-> text, err |-> NoErr]
Fail(e) == [ok |-> FALSE, text |-> <<>>, err |-> e]
\* `const x = f(...); ...rest`, where f may throw: rest is skipped then.
Try(r, rest(_)) == Let(r, LAMBDA x : IF ~x.ok THEN x ELSE rest(x))
\* `${x}` of a name: an absent name prints as undefined.
Str(name) == IF name = NoName THEN <<"undefined">> ELSE name

RECURSIVE Join(_, _)
Join(texts, sep) ==
    IF texts = <<>> THEN <<>>
    ELSE IF Len(texts) = 1 THEN texts[1]
    ELSE texts[1] \o <<sep>> \o Join(Tail(texts), sep)

_mapFFITypeToTS ==
    [f \in {"BunFFIType.int8_t", "BunFFIType.int16_t", "BunFFIType.int32_t",
            "BunFFIType.uint8_t", "BunFFIType.uint16_t", "BunFFIType.uint32_t",
            "BunFFIType.float", "BunFFIType.double"} |-> "number"]
    @@ [f \in {"BunFFIType.int64_t", "BunFFIType.uint64_t"} |-> "bigint | number"]
    @@ ("BunFFIType.void" :> "void")
    @@ ("BunFFIType.cstring" :> "BunCString")
    @@ ("BunFFIType.pointer" :> "Pointer")

_mapFFITypeToReadFn ==
    ("BunFFIType.int8_t" :> "i8") @@ ("BunFFIType.int16_t" :> "i16")
    @@ ("BunFFIType.int32_t" :> "i32") @@ ("BunFFIType.int64_t" :> "i64")
    @@ ("BunFFIType.uint8_t" :> "u8") @@ ("BunFFIType.uint16_t" :> "u16")
    @@ ("BunFFIType.uint32_t" :> "u32") @@ ("BunFFIType.uint64_t" :> "u64")
    @@ ("BunFFIType.cstring" :> "ptr")
    @@ ("BunFFIType.float" :> "f32") @@ ("BunFFIType.double" :> "f64")
    @@ ("BunFFIType.pointer" :> "ptr")

\* The options of GenOpts that are data, with the defaults of the constructor.
OptionNames ==
    {"identWidth", "readers", "writers", "helpers", "funcDeclTypes", "throwOnErrors",
     "funcSymbolsImport", "funcWrappers", "structSizes", "structAllocs",
     "funcSymbolsImportLibPath"}
DefaultLibPath == "import.meta.dir + \"/mylib\""
DefaultOpts ==
    [identWidth |-> 4, readers |-> TRUE, writers |-> TRUE, helpers |-> TRUE,
     funcDeclTypes |-> FALSE, throwOnErrors |-> FALSE, funcSymbolsImport |-> TRUE,
     funcWrappers |-> TRUE, structSizes |-> FALSE, structAllocs |-> TRUE,
     funcSymbolsImportLibPath |-> DefaultLibPath]
\* constructor: the defaults, overridden by the options that are supplied.
\* A constructor that turns the allocators off as soon as an option is given.
NewOptsAllocsOnRequest(partial) ==
    [k \in OptionNames |->
        IF k \in DOMAIN partial THEN partial[k]
        ELSE IF k = "structAllocs" /\ DOMAIN partial # {} THEN FALSE
        ELSE DefaultOpts[k]]
NewOpts(partial) ==
    [k \in OptionNames |-> IF k \in DOMAIN partial THEN partial[k] ELSE DefaultOpts[k]]

This(out, failedSymbols) == [out |-> out, failedSymbols |-> failedSymbols, err |-> NoErr]
ThrowGen(t, e) == [t EXCEPT !.err = e]
\* `stmt; ...rest` in a method: rest is skipped when stmt threw.
AndThen(t, rest(_)) == Let(t, LAMBDA x : IF x.err # NoErr THEN x ELSE rest(x))

\* tryDo that keeps only the failure it records.
tryDoKeepsLast(o, t, r, failedSymbol) ==
    IF r.ok THEN t
    ELSE IF o.throwOnErrors
    THEN [t EXCEPT !.failedSymbols = {failedSymbol}, !.err = r.err]
    ELSE [t EXCEPT !.failedSymbols = {failedSymbol}]

\* tryDo around a helper whose outcome is r: the failure is recorded, and
\* thrown again when throwOnErrors is set.
tryDo(o, t, r, failedSymbol) ==
    IF r.ok THEN t
    ELSE IF o.throwOnErrors
    THEN [t EXCEPT !.failedSymbols = @ \cup {failedSymbol}, !.err = r.err]
    ELSE [t EXCEPT !.failedSymbols = @ \cup {failedSymbol}]

\* A line of out: indent blanks, then str, then a newline.
Line(indent, str) == [indent |-> indent, str |-> str]
writeLn(o, t, str, padding) ==
    [t EXCEPT !.out = Append(@, Line(o.identWidth * padding, str))]
RECURSIVE WriteLines(_, _, _, _)
WriteLines(o, t, strs, padding) ==
    IF strs = <<>> THEN t
    ELSE WriteLines(o, writeLn(o, t, Head(strs), padding), Tail(strs), padding)

mapFFITypeToTS(ffiType) ==
    IF Len(ffiType) = 1 /\ ffiType[1] \in DOMAIN _mapFFITypeToTS
    THEN Ok(<<_mapFFITypeToTS[ffiType[1]]>>)
    ELSE Fail("unknown ffiType")
mapFFITypeToReadFn(ffiType) ==
    IF Len(ffiType) = 1 /\ ffiType[1] \in DOMAIN _mapFFITypeToReadFn
    THEN Ok(<<_mapFFITypeToReadFn[ffiType[1]]>>)
    ELSE Fail("unknown ffiType")

ImportsText ==
    <<"import { FFIType as BunFFIType, JSCallback as BunJSCallback, ",
      "CFunction as BunCFunction, dlopen as bunDlopen, CString as BunCString, ",
      "ptr as bunPtr, type Pointer as BunPointer, read as bunRead, ",
      "suffix as bunSuffix, } from \"bun:ffi\";">>
generateImports(o, t) == writeLn(o, t, ImportsText, 0)

HelpersText ==
    <<"type _PartialStructArg<T>; const Pointer; type Pointer; type ConstPtrT<T>; ",
      "type PtrT<T>; type TypedArrayPtr<T>; export const NULL; ",
      "export function bunReadArray; export function alloc_CString; ",
      "export function alloc_opaque_pointer">>
generateHelpers(o, t) == writeLn(o, t, HelpersText, 0)

RECURSIVE getAstItemNoAliasNoPointer(_, _)
getAstItemNoAliasNoPointer(h, item) ==
    IF h[item].type = "alias" THEN getAstItemNoAliasNoPointer(h, h[item].aliasTo)
    ELSE IF h[item].type = "pointer" /\ h[item].baseType # 0
    THEN getAstItemNoAliasNoPointer(h, h[item].baseType)
    ELSE item

RECURSIVE getFFIType(_, _)
RECURSIVE inlineFuncDeclFFIType(_, _)
RECURSIVE ArgFFITypes(_, _, _, _)

getFFIType(h, d) ==
    CASE h[d].type = "alias" -> getFFIType(h, h[d].aliasTo)
      [] h[d].type = "builtin" -> Ok(<<h[d].ffiType>>)
      [] h[d].type = "enum" -> Ok(<<"BunFFIType.int32_t">>)
      [] h[d].type = "func_decl" -> inlineFuncDeclFFIType(h, d)
      [] h[d].type = "func_pointer" -> Ok(<<"BunFFIType.pointer">>)
      [] h[d].type = "pointer" -> Ok(<<"BunFFIType.pointer">>)
      [] h[d].type = "struct" -> Fail("no ffi type for structs")
      [] OTHER -> Fail("unknown ast type")

\* d.args.map((x) => this.getFFIType(x.valueType)): the texts, in order.
ArgFFITypes(h, args, i, acc) ==
    IF i > Len(args) THEN Ok(acc)
    ELSE Try(getFFIType(h, args[i].valueType), LAMBDA x :
             ArgFFITypes(h, args, i + 1, Append(acc, x.text)))

inlineFuncDeclFFIType(h, d) ==
    Try(getFFIType(h, h[d].returnType), LAMBDA returns :
    Try(ArgFFITypes(h, h[d].args, 1, <<>>), LAMBDA args :
        Ok(<<"{ returns: ">> \o returns.text \o <<", args: [ ">> \o Join(args.text, ",")
           \o <<" ], }">>)))

RECURSIVE inlineTsType(_, _)
RECURSIVE inlineTsPointerType(_, _)
RECURSIVE inlineFuncDeclType(_, _)
RECURSIVE ArgTsTypes(_, _, _, _)

inlineTsType(h, d) ==
    IF h[d].name # NoName THEN Ok(h[d].name)
    ELSE CASE h[d].type = "alias" -> inlineTsType(h, h[d].aliasTo)
           [] h[d].type = "builtin" -> mapFFITypeToTS(<<h[d].ffiType>>)
           [] h[d].type = "func_decl" -> inlineFuncDeclType(h, d)
           [] h[d].type = "func_pointer" -> inlineFuncDeclType(h, h[d].decl)
           [] h[d].type = "pointer" -> inlineTsPointerType(h, d)
           [] h[d].type \in {"struct", "enum"} -> Fail("no ts type found")
           [] OTHER -> Fail("unknown ast type")

inlineTsPointerType(h, d) ==
    IF h[d].baseType = 0 THEN Ok(<<"Pointer">>)
    ELSE Try(inlineTsType(h, h[d].baseType), LAMBDA innerT :
             IF h[d].is_const THEN Ok(<<"ConstPtrT<">> \o innerT.text \o <<">">>)
             ELSE Ok(<<"PtrT<">> \o innerT.text \o <<">">>))

\* x.name || "arg" + i, with i counted from 0
ArgName(x, i) == IF x.name # NoName THEN x.name ELSE <<"arg", NumberToString(i - 1)>>

ArgTsTypes(h, args, i, acc) ==
    IF i > Len(args) THEN Ok(acc)
    ELSE Try(inlineTsType(h, args[i].valueType), LAMBDA x :
             ArgTsTypes(h, args, i + 1, Append(acc, ArgName(args[i], i) \o <<": ">> \o x.text)))

inlineFuncDeclType(h, d) ==
    Try(inlineTsType(h, h[d].returnType), LAMBDA returnType :
    Try(ArgTsTypes(h, h[d].args, 1, <<>>), LAMBDA args :
        Ok(<<"(">> \o Join(args.text, ", ") \o <<") => ">> \o returnType.text)))

\* The body of the writer generateBuiltin emits for each ffiType.
BuiltinWriterBody ==
    ("BunFFIType.int8_t" :> << <<"buffer.writeInt8(x || 0, offset);">> >>)
    @@ ("BunFFIType.int16_t" :> << <<"buffer.writeInt16LE(x || 0, offset);">> >>)
    @@ ("BunFFIType.int32_t" :> << <<"buffer.writeInt32LE(x || 0, offset);">> >>)
    @@ ("BunFFIType.int64_t" :> << <<"buffer.writeBigInt64LE(BigInt(x || 0), offset);">> >>)
    @@ ("BunFFIType.uint8_t" :> << <<"buffer.writeUint8(x || 0, offset);">> >>)
    @@ ("BunFFIType.uint16_t" :> << <<"buffer.writeUint16LE(x || 0, offset);">> >>)
    @@ ("BunFFIType.uint32_t" :> << <<"buffer.writeUint32LE(x || 0, offset);">> >>)
    @@ ("BunFFIType.uint64_t" :> << <<"buffer.writeBigUint64LE(BigInt(x || 0), offset);">> >>)
    @@ ("BunFFIType.string" :> << <<"buffer.writeBigUint64LE(BigInt(x.ptr), offset);">> >>)
    @@ ("BunFFIType.float" :> << <<"buffer.writeFloatLE(x, offset);">> >>)
    @@ ("BunFFIType.double" :> << <<"buffer.writeDoubleLE(x, offset);">> >>)
    @@ ("BunFFIType.pointer" :>
          << <<"if (x && typeof x === \"object\" && \"BYTES_PER_ELEMENT\" in x) x = bunPtr(x);">>,
             <<"buffer.writeBigUint64LE(BigInt(x || 0), offset);">> >>)
    @@ ("BunFFIType.cstring" :> << <<"buffer.writeBigUint64LE(BigInt(x.ptr || 0), offset);">> >>)

\* generateBuiltin, `if (this.opts.readers) { ... }`
BuiltinReader(o, t, name, d, tsType) ==
    IF ~o.readers THEN t
    ELSE Let(writeLn(o, t, <<"export function read_">> \o name
                           \o <<"(from: BunPointer, offset: number): ">> \o tsType \o <<" {">>,
                     0), LAMBDA t1 :
         IF d.ffiType = "BunFFIType.cstring"
         THEN writeLn(o, writeLn(o, t1, <<"return new BunCString(bunRead.ptr(from, offset));">>,
                                 1), <<"}">>, 0)
         ELSE Let(mapFFITypeToReadFn(<<d.ffiType>>), LAMBDA readFn :
                  IF ~readFn.ok THEN ThrowGen(t1, readFn.err)
                  ELSE writeLn(o, writeLn(o, t1, <<"return bunRead.">> \o readFn.text
                                                 \o <<"(from, offset);">>, 1),
                               <<"}">>, 0)))

\* generateBuiltin, `if (this.opts.writers) { ... }`
BuiltinWriter(o, t, name, d, tsType) ==
    IF ~o.writers THEN t
    ELSE Let(writeLn(o, t, <<"export function write_">> \o name \o <<"(x: ">> \o tsType
                           \o (IF name = <<"opaque_pointer">> THEN <<" | TypedArrayPtr<any>">>
                               ELSE <<>>)
                           \o <<", buffer: Buffer, offset: number) {">>, 0), LAMBDA t1 :
         IF d.ffiType \notin DOMAIN BuiltinWriterBody THEN ThrowGen(t1, "unknown ffi type")
         ELSE writeLn(o, WriteLines(o, t1, BuiltinWriterBody[d.ffiType], 1), <<"}">>, 0))

generateBuiltin(o, t, name, d) ==
    Let(mapFFITypeToTS(<<d.ffiType>>), LAMBDA tsType :
        IF ~tsType.ok THEN ThrowGen(t, tsType.err)
        ELSE IF tsType.text = name THEN t
        ELSE AndThen(BuiltinReader(o, writeLn(o, t, <<"export type ">> \o name \o <<" = ">>
                                                    \o tsType.text \o <<";">>, 0),
                                   name, d, tsType.text),
                     LAMBDA t2 : BuiltinWriter(o, t2, name, d, tsType.text)))

RECURSIVE EnumFieldLines(_, _, _, _)
EnumFieldLines(o, t, fields, i) ==
    IF i > Len(fields) THEN t
    ELSE EnumFieldLines(o, writeLn(o, t, fields[i].name \o <<" = ">> \o fields[i].value.value
                                         \o <<",">>, 1), fields, i + 1)

\* generateEnum, `if (this.opts.readers) { ... }`
EnumReader(o, t, name) ==
    IF ~o.readers THEN t
    ELSE writeLn(o,
           writeLn(o,
             writeLn(o, t, <<"export function read_">> \o name
                           \o <<"(from: BunPointer, offset: number): ">> \o name \o <<" {">>,
                     0),
             <<"return bunRead.i32(from, offset) as ">> \o name \o <<";">>, 1),
           <<"}">>, 0)

\* generateEnum, `if (this.opts.writers) { ... }`
EnumWriter(o, t, name) ==
    IF ~o.writers THEN t
    ELSE writeLn(o,
           writeLn(o,
             writeLn(o, t, <<"export function write_">> \o name \o <<"(x: ">> \o name
                           \o <<", buffer: Buffer, offset: number) {">>, 0),
             <<"buffer.writeInt32LE(x as number, offset);">>, 1),
           <<"}">>, 0)

generateEnum(o, t, name, d) ==
    EnumWriter(o,
      EnumReader(o,
        writeLn(o, EnumFieldLines(o, writeLn(o, t, <<"export enum ">> \o name \o <<" {">>, 0),
                                  d.fields, 1),
                <<"}">>, 0),
        name),
      name)

\* `if (this.opts.readers) writeLn(read); if (this.opts.writers) writeLn(write)`
ReaderWriterLines(o, t, read, write) ==
    Let(IF o.readers THEN writeLn(o, t, read, 0) ELSE t, LAMBDA t1 :
        IF o.writers THEN writeLn(o, t1, write, 0) ELSE t1)

generateAlias(o, t, h, name, d) ==
    ReaderWriterLines(o, writeLn(o, t, <<"export type ">> \o name \o <<" = ">>
                                       \o Str(h[d.aliasTo].name) \o <<";">>, 0),
                      <<"export const read_">> \o name \o <<" = read_">>
                         \o Str(h[d.aliasTo].name) \o <<";">>,
                      <<"export const write_">> \o name \o <<" = write_">>
                         \o Str(h[d.aliasTo].name) \o <<";">>)

generatePointer(o, t, h, name, d) ==
    Let(inlineTsPointerType(h, d), LAMBDA ty :
        IF ~ty.ok THEN ThrowGen(t, ty.err)
        ELSE ReaderWriterLines(o, writeLn(o, t, <<"export type ">> \o name \o <<" = ">>
                                                \o ty.text \o <<";">>, 0),
                               <<"export const read_">> \o name \o <<" = read_opaque_pointer;">>,
                               <<"export const write_">> \o name
                                  \o <<" = write_opaque_pointer;">>))

\* generateFuncPointer, `if (this.opts.readers) { ... }`
\* The reader that records its failure under the name of the declaration.
FuncPointerReaderFailsAsDecl(o, t, h, name, d) ==
    IF ~o.readers THEN t
    ELSE Let(inlineFuncDeclFFIType(h, d.decl), LAMBDA funcDeclCode :
         IF ~funcDeclCode.ok THEN tryDo(o, t, funcDeclCode, name)
         ELSE writeLn(o,
                WriteLines(o,
                  WriteLines(o,
                    WriteLines(o,
                      writeLn(o, t, <<"export function read_">> \o name
                                    \o <<"(from: BunPointer, offset: number): ">> \o name
                                    \o <<" {">>, 0),
                      << <<"const ptr = bunRead.ptr(from, offset);">>,
                         <<"return BunCFunction({">> >>, 1),
                    << <<"ptr,">>, <<"...">> \o funcDeclCode.text \o <<",">> >>, 2),
                  << <<"}) as any;">> >>, 1),
                <<"}">>, 0))
FuncPointerReader(o, t, h, name, d) ==
    IF ~o.readers THEN t
    ELSE Let(inlineFuncDeclFFIType(h, d.decl), LAMBDA funcDeclCode :
         IF ~funcDeclCode.ok THEN tryDo(o, t, funcDeclCode, <<"read_">> \o name)
         ELSE writeLn(o,
                WriteLines(o,
                  WriteLines(o,
                    WriteLines(o,
                      writeLn(o, t, <<"export function read_">> \o name
                                    \o <<"(from: BunPointer, offset: number): ">> \o name
                                    \o <<" {">>, 0),
                      << <<"const ptr = bunRead.ptr(from, offset);">>,
                         <<"return BunCFunction({">> >>, 1),
                    << <<"ptr,">>, <<"...">> \o funcDeclCode.text \o <<",">> >>, 2),
                  << <<"}) as any;">> >>, 1),
                <<"}">>, 0))

\* generateFuncPointer, `if (this.opts.writers) { ... }`
FuncPointerWriter(o, t, h, name, d) ==
    IF ~o.writers THEN t
    ELSE Let(inlineFuncDeclFFIType(h, d.decl), LAMBDA funcDeclCode :
         IF ~funcDeclCode.ok THEN tryDo(o, t, funcDeclCode, <<"write_">> \o name)
         ELSE writeLn(o,
                WriteLines(o,
                  writeLn(o, t, <<"export function write_">> \o name \o <<"(x: ">> \o name
                                \o <<", buffer: Buffer, offset: number) {">>, 0),
                  << <<"const func = new BunJSCallback(x, ">> \o funcDeclCode.text \o <<");">>,
                     <<"write_opaque_pointer(func.ptr, buffer, offset);">> >>, 1),
                <<"}">>, 0))

generateFuncPointer(o, t, h, name, d) ==
    Let(inlineFuncDeclType(h, d.decl), LAMBDA ty :
        IF ~ty.ok THEN ThrowGen(t, ty.err)
        ELSE AndThen(FuncPointerReader(o, writeLn(o, t, <<"export type ">> \o name \o <<" = ">>
                                                        \o ty.text \o <<";">>, 0),
                                       h, name, d),
                     LAMBDA t2 : FuncPointerWriter(o, t2, h, name, d)))

generateFuncDecl(o, t, h, name, d) ==
    IF ~o.funcDeclTypes THEN t
    ELSE Let(inlineFuncDeclType(h, d), LAMBDA ty :
             IF ~ty.ok THEN ThrowGen(t, ty.err)
             ELSE writeLn(o, t, <<"export type ">> \o name \o <<" = ">> \o ty.text \o <<";">>, 0))

RECURSIVE StructTypeLines(_, _, _, _, _)
StructTypeLines(o, t, h, fields, i) ==
    IF i > Len(fields) THEN t
    ELSE Let(inlineTsType(h, fields[i].valueType), LAMBDA ty :
             IF ~ty.ok THEN ThrowGen(t, ty.err)
             ELSE StructTypeLines(o, writeLn(o, t, fields[i].name \o <<": ">> \o ty.text
                                                   \o <<",">>, 1), h, fields, i + 1))

RECURSIVE StructReadLines(_, _, _, _, _)
StructReadLines(o, t, h, fields, i) ==
    IF i > Len(fields) THEN t
    ELSE IF h[fields[i].valueType].type = "pointer"
    THEN StructReadLines(o, writeLn(o, t, fields[i].name
                                          \o <<": read_opaque_pointer(from, offset + ",
                                               NumberToString(fields[i].offset), ") as any,">>,
                                    2), h, fields, i + 1)
    ELSE IF h[fields[i].valueType].name = NoName THEN ThrowGen(t, "bad value type")
    ELSE StructReadLines(o, writeLn(o, t, fields[i].name \o <<": read_">>
                                          \o h[fields[i].valueType].name
                                          \o <<"(from, offset + ",
                                               NumberToString(fields[i].offset), "),">>, 2),
                         h, fields, i + 1)

RECURSIVE StructWriteLines(_, _, _, _, _)
StructWriteLines(o, t, h, fields, i) ==
    IF i > Len(fields) THEN t
    ELSE IF h[fields[i].valueType].type = "pointer"
    THEN StructWriteLines(o, writeLn(o, t, <<"x.">> \o fields[i].name
                                           \o <<" !== undefined && write_opaque_pointer(x.">>
                                           \o fields[i].name
                                           \o <<", buffer, offset + ",
                                                NumberToString(fields[i].offset), ");">>, 2),
                          h, fields, i + 1)
    ELSE IF h[fields[i].valueType].name = NoName THEN ThrowGen(t, "bad value type")
    ELSE StructWriteLines(o, writeLn(o, t, <<"x.">> \o fields[i].name
                                           \o <<" !== undefined && write_">>
                                           \o h[fields[i].valueType].name \o <<"(x.">>
                                           \o fields[i].name
                                           \o <<", buffer, offset + ",
                                                NumberToString(fields[i].offset), ");">>, 1),
                          h, fields, i + 1)

\* generateStruct, `if (this.opts.readers) { ... }`
StructReader(o, t, h, name, d) ==
    IF ~o.readers THEN t
    ELSE AndThen(StructReadLines(o,
                    writeLn(o, writeLn(o, t, <<"export function read_">> \o name
                                             \o <<"(from: BunPointer, offset: number): ">>
                                             \o name \o <<" {">>, 0),
                            <<"return {">>, 1),
                    h, d.fields, 1),
                 LAMBDA r1 : writeLn(o, writeLn(o, r1, <<"};">>, 1), <<"}">>, 0))

\* generateStruct, `if (this.opts.writers) { ... }`
StructWriter(o, t, h, name, d) ==
    IF ~o.writers THEN t
    ELSE AndThen(StructWriteLines(o,
                    writeLn(o, t, <<"export function write_">> \o name \o <<"(x: ">> \o name
                                  \o <<" | _PartialStructArg<">> \o name
                                  \o <<">, buffer: Buffer, offset: number) {">>, 0),
                    h, d.fields, 1),
                 LAMBDA w1 : writeLn(o, w1, <<"}">>, 0))

\* generateStruct, the structSizes and structAllocs parts.
StructSizeAndAlloc(o, t, name, d) ==
    Let(IF o.structSizes
        THEN writeLn(o, t, <<"export const ">> \o name
                           \o <<"__ffi_size = ", NumberToString(d.size), ";">>, 0)
        ELSE t, LAMBDA t1 :
        IF ~o.structAllocs THEN t1
        ELSE writeLn(o,
               WriteLines(o,
                 writeLn(o, t1, <<"export function alloc_">> \o name \o <<"(x: ">> \o name
                                \o <<" | _PartialStructArg<">> \o name
                                \o <<">, buffer?: Buffer): TypedArrayPtr<">> \o name
                                \o <<"> {">>, 0),
                 << <<"if (!buffer) buffer = Buffer.alloc(", NumberToString(d.size), ");">>,
                    <<"write_">> \o name \o <<"(x, buffer, 0);">>,
                    <<"return buffer as any;">> >>, 1),
               <<"}">>, 0))

generateStruct(o, t, h, name, d) ==
    AndThen(StructTypeLines(o, writeLn(o, t, <<"export type ">> \o name \o <<" = {">>, 0),
                            h, d.fields, 1), LAMBDA t1 :
    AndThen(StructReader(o, writeLn(o, t1, <<"};">>, 0), h, name, d), LAMBDA t3 :
    AndThen(StructWriter(o, t3, h, name, d), LAMBDA t4 :
            StructSizeAndAlloc(o, t4, name, d))))

\* The default funcSymbolsImportLibPathCode: one pushed line, and the name of
\* the variable it declares.
funcSymbolsImportLibPathCode(o, t) ==
    [t EXCEPT !.out = Append(@, Line(0, <<"const _LIB_PATH = ", o.funcSymbolsImportLibPath,
                                          " + \".\" + bunSuffix;">>))]

\* One iteration of the loop of generateFuncSymbolImports.
ImportEntry(o, t, h, dname, d) ==
    IF h[d].type # "func_decl" THEN t
    ELSE Let(inlineFuncDeclFFIType(h, d), LAMBDA funcDeclCode :
             IF funcDeclCode.ok
             THEN writeLn(o, t, dname \o <<": ">> \o funcDeclCode.text \o <<",">>, 1)
             ELSE tryDo(o, t, funcDeclCode, dname))

\* The loop over the entries lo..hi of parsed.decls, in order, as the loop
\* over its first half followed by the loop over its second half.
RECURSIVE ImportEntries(_, _, _, _, _)
ImportEntries(o, t, parsed, lo, hi) ==
    IF lo > hi THEN t
    ELSE IF lo = hi
    THEN Let(t, LAMBDA self : ImportEntry(o, self, parsed.heap, parsed.decls[lo].name,
                                          parsed.decls[lo].id))
    ELSE AndThen(ImportEntries(o, t, parsed, lo, (lo + hi) \div 2),
                 LAMBDA t1 : ImportEntries(o, t1, parsed, (lo + hi) \div 2 + 1, hi))

generateFuncSymbolImports(o, t, parsed) ==
    AndThen(ImportEntries(o, writeLn(o, funcSymbolsImportLibPathCode(o, t),
                                     <<"export const bunImportedLib = bunDlopen(_LIB_PATH, {">>,
                                     0),
                          parsed, 1, Len(parsed.decls)),
            LAMBDA t2 : writeLn(o, t2, <<"});">>, 0))

\* What the callback of d.args.map in generateFuncWrapper returns for one
\* argument; transformCode holds lines, direct tells that the argument leaves
\* isDirectInOutArgs alone.
WrapperArgOf(transformCode, inArgName, declTsType, callArgName, direct) ==
    [transformCode |-> transformCode, inArgName |-> inArgName, declTsType |-> declTsType,
     callArgName |-> callArgName, direct |-> direct]

\* The branch `if (outFFIType === "BunFFIType.pointer") { ... }` of the callback.
\* The branch with a struct argument passed on as it is.
WrapperPointerArgStructAsIs(h, astItemType, inArgName, outArgName, declTsType, identWidth) ==
    IF astItemType.type = "func_pointer"
    THEN Try(inlineFuncDeclFFIType(h, astItemType.decl), LAMBDA funcDeclCode :
             Ok(WrapperArgOf(<< Line(identWidth * 2,
                                     <<"const ">> \o outArgName \o <<" = new BunJSCallback(">>
                                     \o inArgName \o <<", ">> \o funcDeclCode.text
                                     \o <<").ptr;">>) >>,
                             inArgName, declTsType, outArgName, FALSE)))
    ELSE Ok(WrapperArgOf(<<>>, inArgName, declTsType \o <<" | TypedArrayPtr<any>">>, inArgName,
                         TRUE))
WrapperPointerArg(h, astItemType, inArgName, outArgName, declTsType, identWidth) ==
    IF astItemType.type = "func_pointer"
    THEN Try(inlineFuncDeclFFIType(h, astItemType.decl), LAMBDA funcDeclCode :
             Ok(WrapperArgOf(<< Line(identWidth * 2,
                                     <<"const ">> \o outArgName \o <<" = new BunJSCallback(">>
                                     \o inArgName \o <<", ">> \o funcDeclCode.text
                                     \o <<").ptr;">>) >>,
                             inArgName, declTsType, outArgName, FALSE)))
    ELSE IF astItemType.type = "struct"
    THEN Ok(WrapperArgOf(
              << Line(identWidth * 2, <<"let ">> \o outArgName \o <<": Pointer | Buffer = ">>
                                      \o inArgName \o <<" as any;">>),
                 Line(identWidth * 2, <<"if (">> \o inArgName \o <<" && typeof ">> \o inArgName
                                      \o <<" === \"object\" && !(\"BYTES_PER_ELEMENT\" in ">>
                                      \o inArgName \o <<")) {">>),
                 Line(identWidth * 3, outArgName \o <<" = Buffer.alloc(">>
                                      \o <<NumberToString(astItemType.size)>> \o <<");">>),
                 Line(identWidth * 3, <<"write_">> \o Str(astItemType.name) \o <<"(">>
                                      \o inArgName \o <<", ">> \o outArgName \o <<", 0);">>),
                 Line(identWidth * 2, <<"}">>) >>,
              inArgName,
              declTsType \o <<" | _PartialStructArg<">> \o Str(astItemType.name) \o <<">">>,
              outArgName, FALSE))
    ELSE Ok(WrapperArgOf(<<>>, inArgName, declTsType \o <<" | TypedArrayPtr<any>">>, inArgName,
                         TRUE))

WrapperArg(h, x, i, identWidth) ==
    Try(getFFIType(h, x.valueType), LAMBDA outFFIType :
    Try(inlineTsType(h, x.valueType), LAMBDA declTsType :
        IF outFFIType.text = <<"BunFFIType.pointer">>
        THEN WrapperPointerArg(h, h[getAstItemNoAliasNoPointer(h, x.valueType)], ArgName(x, i),
                               <<"_">> \o ArgName(x, i), declTsType.text, identWidth)
        ELSE Ok(WrapperArgOf(<<>>, ArgName(x, i), declTsType.text, ArgName(x, i), TRUE))))

RECURSIVE WrapperArgs(_, _, _, _, _)
WrapperArgs(h, args, i, identWidth, acc) ==
    IF i > Len(args) THEN Ok(acc)
    ELSE Try(WrapperArg(h, args[i], i, identWidth), LAMBDA a :
             WrapperArgs(h, args, i + 1, identWidth, Append(acc, a.text)))

RECURSIVE PushTransformCode(_, _, _)
PushTransformCode(t, args, i) ==
    IF i > Len(args) THEN t
    ELSE PushTransformCode([t EXCEPT !.out = @ \o args[i].transformCode], args, i + 1)

\* generateFuncWrapper once returnTypeTs and args are there: the direct
\* binding, or the wrapping function.
WrapperCode(o, t, name, args, returnTypeTs) ==
    IF \A i \in 1..Len(args) : args[i].direct
    THEN writeLn(o, t, <<"export const ">> \o name \o <<" = bunImportedLib.symbols.">> \o name
                       \o <<" as (">>
                       \o Join([i \in 1..Len(args) |->
                                   args[i].inArgName \o <<": ">> \o args[i].declTsType], ", ")
                       \o <<") => ">> \o returnTypeTs \o <<";">>, 0)
    ELSE writeLn(o,
           writeLn(o,
             PushTransformCode(
               writeLn(o, t, <<"export function ">> \o name \o <<"(">>
                             \o Join([i \in 1..Len(args) |->
                                         args[i].inArgName \o <<": ">> \o args[i].declTsType],
                                     ", ")
                             \o <<"): ">> \o returnTypeTs \o <<" {">>, 0),
               args, 1),
             <<"return bunImportedLib.symbols.">> \o name \o <<"(">>
                \o Join([i \in 1..Len(args) |-> args[i].callArgName], ", ") \o <<");">>, 1),
           <<"};">>, 0)

generateFuncWrapper(o, t, h, name, d) ==
    Let(getFFIType(h, d.returnType), LAMBDA returnTypeFFI :
        IF ~returnTypeFFI.ok THEN tryDo(o, t, returnTypeFFI, name)
        ELSE Let(mapFFITypeToTS(returnTypeFFI.text), LAMBDA returnTypeTs :
             IF ~returnTypeTs.ok THEN ThrowGen(t, returnTypeTs.err)
             ELSE Let(WrapperArgs(h, d.args, 1, o.identWidth, <<>>), LAMBDA args :
                  IF ~args.ok THEN tryDo(o, t, args, name)
                  ELSE WrapperCode(o, t, name, args.text, returnTypeTs.text))))

\* One iteration of the first loop of generateAll.
generateDecl(o, self, h, dname, d) ==
    Let(self, LAMBDA t :
        CASE h[d].type = "builtin" -> generateBuiltin(o, t, dname, h[d])
          [] h[d].type = "enum" -> generateEnum(o, t, dname, h[d])
          [] h[d].type = "alias" -> generateAlias(o, t, h, dname, h[d])
          [] h[d].type = "pointer" -> generatePointer(o, t, h, dname, d)
          [] h[d].type = "func_decl" -> generateFuncDecl(o, t, h, dname, d)
          [] h[d].type = "func_pointer" -> generateFuncPointer(o, t, h, dname, h[d])
          [] h[d].type = "struct" -> generateStruct(o, t, h, dname, h[d])
          [] OTHER -> ThrowGen(t, "unknown decl type"))

\* The first loop of generateAll over the entries lo..hi of parsed.decls, in
\* order, as the loop over its first half followed by the loop over its second.
RECURSIVE GenerateDecls(_, _, _, _, _)
\* The loop run from the last entry to the first.
GenerateDeclsBackwards(o, t, parsed, lo, hi) ==
    IF lo > hi THEN t
    ELSE IF lo = hi
    THEN generateDecl(o, t, parsed.heap, parsed.decls[lo].name, parsed.decls[lo].id)
    ELSE AndThen(GenerateDecls(o, t, parsed, (lo + hi) \div 2 + 1, hi),
                 LAMBDA t1 : GenerateDecls(o, t1, parsed, lo, (lo + hi) \div 2))
GenerateDecls(o, t, parsed, lo, hi) ==
    IF lo > hi THEN t
    ELSE IF lo = hi
    THEN generateDecl(o, t, parsed.heap, parsed.decls[lo].name, parsed.decls[lo].id)
    ELSE AndThen(GenerateDecls(o, t, parsed, lo, (lo + hi) \div 2),
                 LAMBDA t1 : GenerateDecls(o, t1, parsed, (lo + hi) \div 2 + 1, hi))

\* The last loop of generateAll, split the same way.
RECURSIVE GenerateWrappers(_, _, _, _, _)
GenerateWrappers(o, t, parsed, lo, hi) ==
    IF lo > hi THEN t
    ELSE IF lo = hi
    THEN IF parsed.heap[parsed.decls[lo].id].type # "func_decl" THEN t
         ELSE Let(t, LAMBDA self :
                  generateFuncWrapper(o, self, parsed.heap, parsed.decls[lo].name,
                                      parsed.heap[parsed.decls[lo].id]))
    ELSE AndThen(GenerateWrappers(o, t, parsed, lo, (lo + hi) \div 2),
                 LAMBDA t1 : GenerateWrappers(o, t1, parsed, (lo + hi) \div 2 + 1, hi))

\* generateAll(parsed) on the default buffer this.out.
generateAll(o, t, parsed) ==
    AndThen(GenerateDecls(o, IF o.helpers THEN generateHelpers(o, generateImports(o, t))
                             ELSE generateImports(o, t), parsed, 1,
                          Len(parsed.decls)), LAMBDA t3 :
    AndThen(IF o.funcSymbolsImport THEN generateFuncSymbolImports(o, t3, parsed) ELSE t3,
            LAMBDA t4 :
                IF o.funcWrappers THEN GenerateWrappers(o, t4, parsed, 1, Len(parsed.decls))
                ELSE t4))


\* ------------------------------------------------- the bindings at run time
\* What the emitted readers, writers and allocators do when they are called:
\* the text in out, run by the rules of the language and of the Buffer and
\* read APIs its lines call.  A Buffer, and the memory a reader reads, is a
\* sequence of bytes.  A number is its sign and the bytes of its magnitude,
\* least significant first, without high zeros; an object is a function from
\* the names of its properties.

Num(neg, mag) == [neg |-> neg, mag |-> mag]
Zeros(n) == [i \in 1..n |-> 0]
RECURSIVE Normalize(_)
Normalize(bytes) ==
    IF bytes # <<>> /\ bytes[Len(bytes)] = 0 THEN Normalize(SubSeq(bytes, 1, Len(bytes) - 1))
    ELSE bytes
\* Two's complement of a little-endian byte sequence: invert, add one.
RECURSIVE AddOne(_)
AddOne(bytes) ==
    IF bytes = <<>> THEN <<>>
    ELSE IF Head(bytes) = 255 THEN <<0>> \o AddOne(Tail(bytes))
    ELSE <<Head(bytes) + 1>> \o Tail(bytes)
Negate(bytes) == AddOne([i \in 1..Len(bytes) |-> 255 - bytes[i]])

Done(buffer) == [ok |-> TRUE, buffer |-> buffer, v |-> <<>>]
Value(v) == [ok |-> TRUE, buffer |-> <<>>, v |-> v]
\* A RangeError, TypeError or ReferenceError ends the call.
Threw == [ok |-> FALSE, buffer |-> <<>>, v |-> <<>>]

\* buffer.write[Big][U]Int<8w>LE(value, offset): the value must fit the width
\* and the bytes must lie inside the buffer.
writeIntLE(buffer, value, offset, width, signed) ==
    IF offset + width > Len(buffer) THEN Threw
    ELSE IF Len(value.mag) > width THEN Threw
    ELSE Let(value.mag \o Zeros(width - Len(value.mag)), LAMBDA bytes :
         IF value.mag = <<>> THEN
             Done([i \in 1..Len(buffer) |->
                     IF i > offset /\ i <= offset + width THEN 0 ELSE buffer[i]])
         ELSE IF ~signed /\ value.neg THEN Threw
         ELSE IF signed /\ ~value.neg /\ bytes[width] >= 128 THEN Threw
         ELSE IF signed /\ value.neg /\ bytes[width] >= 128 /\ Normalize(bytes) # Zeros(width - 1) \o <<128>>
         THEN Threw
         ELSE Let(IF value.neg THEN Negate(bytes) ELSE bytes, LAMBDA stored :
              Done([i \in 1..Len(buffer) |->
                      IF i > offset /\ i <= offset + width THEN stored[i - offset]
                      ELSE buffer[i]])))
\* read.<i|u><8w>(from, offset) on the memory `from` points at.
readIntLE(memory, offset, width, signed) ==
    Let(SubSeq(memory, offset + 1, offset + width), LAMBDA bytes :
        IF signed /\ bytes[width] >= 128 THEN Value(Num(TRUE, Normalize(Negate(bytes))))
        ELSE Value(Num(FALSE, Normalize(bytes))))

IntAccess(width, signed) == [width |-> width, signed |-> signed]
\* The Buffer method each line of a writer body calls.
WriterCalls ==
    (<<"buffer.writeInt8(x || 0, offset);">> :> IntAccess(1, TRUE))
    @@ (<<"buffer.writeInt16LE(x || 0, offset);">> :> IntAccess(2, TRUE))
    @@ (<<"buffer.writeInt32LE(x || 0, offset);">> :> IntAccess(4, TRUE))
    @@ (<<"buffer.writeBigInt64LE(BigInt(x || 0), offset);">> :> IntAccess(8, TRUE))
    @@ (<<"buffer.writeUint8(x || 0, offset);">> :> IntAccess(1, FALSE))
    @@ (<<"buffer.writeUint16LE(x || 0, offset);">> :> IntAccess(2, FALSE))
    @@ (<<"buffer.writeUint32LE(x || 0, offset);">> :> IntAccess(4, FALSE))
    @@ (<<"buffer.writeBigUint64LE(BigInt(x || 0), offset);">> :> IntAccess(8, FALSE))
    @@ (<<"buffer.writeInt32LE(x as number, offset);">> :> IntAccess(4, TRUE))
\* The read function each reader body calls.
ReaderCalls ==
    ("i8" :> IntAccess(1, TRUE)) @@ ("i16" :> IntAccess(2, TRUE))
    @@ ("i32" :> IntAccess(4, TRUE)) @@ ("i64" :> IntAccess(8, TRUE))
    @@ ("u8" :> IntAccess(1, FALSE)) @@ ("u16" :> IntAccess(2, FALSE))
    @@ ("u32" :> IntAccess(4, FALSE)) @@ ("u64" :> IntAccess(8, FALSE))
    @@ ("ptr" :> IntAccess(8, FALSE))

\* The first line of the text that starts with the pieces, 0 when none does.
LineOf(text, pieces) ==
    IF \E i \in 1..Len(text) : StartsWith(text[i].str, pieces)
    THEN CHOOSE i \in 1..Len(text) :
             /\ StartsWith(text[i].str, pieces)
             /\ \A j \in 1..(i - 1) : ~StartsWith(text[j].str, pieces)
    ELSE 0
\* The place of a piece in a line, 0 when it is not in it.
PieceOf(str, piece) ==
    IF \E k \in 1..Len(str) : str[k] = piece
    THEN CHOOSE k \in 1..Len(str) : str[k] = piece /\ \A j \in 1..(k - 1) : str[j] # piece
    ELSE 0

\* The pieces the generators open a declaration with, per kind of binding.
FunctionPiece ==
    [read |-> "export function read_", write |-> "export function write_",
     alloc |-> "export function alloc_"]
ParametersPiece ==
    [read |-> "(from: BunPointer, offset: number): ", write |-> "(x: ", alloc |-> "(x: "]
ConstPiece == [read |-> "export const read_", write |-> "export const write_"]
CopyPiece == [read |-> " = read_", write |-> " = write_"]
PointerCopyPiece == [read |-> " = read_opaque_pointer;", write |-> " = write_opaque_pointer;"]

\* What the identifier read_<name>, write_<name> or alloc_<name> is bound to in
\* the text: a function declared at a line, a const copy of another binding,
\* or nothing.
Binding(text, kind, name) ==
    Let(LineOf(text, <<FunctionPiece[kind]>> \o name \o <<ParametersPiece[kind]>>), LAMBDA fn :
        IF fn # 0 THEN [kind |-> "function", line |-> fn, target |-> <<>>]
        ELSE IF kind = "alloc" THEN [kind |-> "none", line |-> 0, target |-> <<>>]
        ELSE Let(LineOf(text, <<ConstPiece[kind]>> \o name), LAMBDA cp :
             IF cp = 0 THEN [kind |-> "none", line |-> 0, target |-> <<>>]
             ELSE IF text[cp].str = <<ConstPiece[kind]>> \o name \o <<PointerCopyPiece[kind]>>
             THEN [kind |-> "const", line |-> cp, target |-> <<"opaque_pointer">>]
             ELSE IF Len(text[cp].str) > Len(name) + 3
                     /\ text[cp].str[Len(name) + 2] = CopyPiece[kind]
             THEN [kind |-> "const", line |-> cp,
                   target |-> SubSeq(text[cp].str, Len(name) + 3, Len(text[cp].str) - 1)]
             ELSE [kind |-> "none", line |-> 0, target |-> <<>>]))

\* write_<name>(x, buffer, offset).  A callee that is no plain identifier
\* (write_int[2] is element 2 of a function) or that is bound to nothing
\* cannot be called.
RECURSIVE write(_, _, _, _, _)
RECURSIVE WriterBody(_, _, _, _, _)
write(text, name, x, buffer, offset) ==
    IF Len(name) # 1 THEN Threw
    ELSE Let(Binding(text, "write", name), LAMBDA b :
         IF b.kind = "none" THEN Threw
         ELSE IF b.kind = "const" THEN write(text, b.target, x, buffer, offset)
         ELSE WriterBody(text, b.line + 1, x, buffer, offset))
\* The statements of a writer from line i to its closing brace.
WriterBody(text, i, x, buffer, offset) ==
    IF i > Len(text) \/ text[i].str = <<"}">> THEN Done(buffer)
    ELSE IF text[i].str \in DOMAIN WriterCalls
    THEN Let(writeIntLE(buffer, x, offset, WriterCalls[text[i].str].width,
                        WriterCalls[text[i].str].signed), LAMBDA r :
             IF ~r.ok THEN r ELSE WriterBody(text, i + 1, x, r.buffer, offset))
    ELSE IF text[i].str[1] = "if (x && typeof x === \"object\" && \"BYTES_PER_ELEMENT\" in x) x = bunPtr(x);"
    THEN WriterBody(text, i + 1, x, buffer, offset)
    ELSE IF text[i].str[1] = "x." /\ PieceOf(text[i].str, "(x.") # 0
    THEN \* x.<f> !== undefined && write_<T>(x.<f>, buffer, offset + <n>);
         IF <<text[i].str[2]>> \notin DOMAIN x THEN WriterBody(text, i + 1, x, buffer, offset)
         ELSE Let(write(text, SubSeq(text[i].str, 4, PieceOf(text[i].str, "(x.") - 1),
                        x[<<text[i].str[2]>>], buffer,
                        offset + Number(text[i].str[Len(text[i].str) - 1])), LAMBDA r :
                  IF ~r.ok THEN r ELSE WriterBody(text, i + 1, x, r.buffer, offset))
    ELSE IF text[i].str[1] = "x." /\ text[i].str[3] = " !== undefined && write_opaque_pointer(x."
    THEN IF <<text[i].str[2]>> \notin DOMAIN x THEN WriterBody(text, i + 1, x, buffer, offset)
         ELSE Let(write(text, <<"opaque_pointer">>, x[<<text[i].str[2]>>], buffer,
                        offset + Number(text[i].str[Len(text[i].str) - 1])), LAMBDA r :
                  IF ~r.ok THEN r ELSE WriterBody(text, i + 1, x, r.buffer, offset))
    ELSE Threw

\* read_<name>(from, offset) on the memory `from` points at.
RECURSIVE read(_, _, _, _)
RECURSIVE ReadFields(_, _, _, _, _)
read(text, name, memory, offset) ==
    IF Len(name) # 1 THEN Threw
    ELSE Let(Binding(text, "read", name), LAMBDA b :
         IF b.kind = "none" THEN Threw
         ELSE IF b.kind = "const" THEN read(text, b.target, memory, offset)
         ELSE IF text[b.line + 1].str = <<"return {">>
         THEN ReadFields(text, b.line + 2, memory, offset, <<>>)
         ELSE IF text[b.line + 1].str[1] = "return bunRead."
                 /\ text[b.line + 1].str[2] \in DOMAIN ReaderCalls
         THEN readIntLE(memory, offset, ReaderCalls[text[b.line + 1].str[2]].width,
                        ReaderCalls[text[b.line + 1].str[2]].signed)
         ELSE IF text[b.line + 1].str[1] = "return bunRead.i32(from, offset) as "
         THEN readIntLE(memory, offset, 4, TRUE)
         ELSE Threw)
\* The properties of the object literal a struct reader returns, from line i.
ReadFields(text, i, memory, offset, object) ==
    IF i > Len(text) \/ text[i].str = <<"};">> THEN Value(object)
    ELSE IF text[i].str[2] = ": read_opaque_pointer(from, offset + "
    THEN Let(read(text, <<"opaque_pointer">>, memory, offset + Number(text[i].str[3])),
             LAMBDA r :
                IF ~r.ok THEN r
                ELSE ReadFields(text, i + 1, memory, offset,
                                object @@ (<<text[i].str[1]>> :> r.v)))
    ELSE IF text[i].str[2] = ": read_" /\ PieceOf(text[i].str, "(from, offset + ") # 0
    THEN Let(read(text, SubSeq(text[i].str, 3, PieceOf(text[i].str, "(from, offset + ") - 1),
                  memory, offset + Number(text[i].str[Len(text[i].str) - 1])), LAMBDA r :
                IF ~r.ok THEN r
                ELSE ReadFields(text, i + 1, memory, offset,
                                object @@ (<<text[i].str[1]>> :> r.v)))
    ELSE Threw

\* alloc_<name>(x), without a caller buffer.
alloc(text, name, x) ==
    Let(Binding(text, "alloc", name), LAMBDA b :
        IF b.kind = "none" THEN Threw
        ELSE write(text, name, x,
                   Zeros(Number(text[b.line + 1].str[2])), 0))
\* ------------------------------------------------------------------ inputs
\* The declaration trees the resolver is run on: every sequence of at most
\* MaxStatements statements of one family, and every enum of at most
\* MaxMembers members.

Here == Pos(5, 1)
Later == Pos(9, 1)
Stmt(kind, name, qualType, inner) == Statement(kind, name, NoName, Here, Here, qualType, FALSE, inner)
Field(name, qualType) == Item("FieldDecl", name, qualType, "", Later, Later, <<>>)
Parm(name, qualType) == Item("ParmVarDecl", name, qualType, "", Here, Here, <<>>)
Record(name, members) == Stmt("RecordDecl", name, NoName, members)
Function(name, ret, parms) ==
    Stmt("FunctionDecl", name, ret \o <<SP, "(", ")">>, parms)
TagRef(name) == TypeAst("ElaboratedType", NoName, NoName, <<TypeAst("RecordType", NoName, name, <<>>)>>)
AnonUnion(loc) ==
    Item("RecordDecl", NoName, NoName, "union", loc, loc,
         <<Field(<<"i">>, <<"int">>), Field(<<"f">>, <<"float">>)>>)
FuncPointerTypedef(name, ret, args) ==
    Stmt("TypedefDecl", name, <<"void", SP, "(", "*", ")", "(", ")">>,
         <<TypeAst("PointerType", NoName, NoName,
             <<TypeAst("ParenType", NoName, NoName,
                 <<TypeAst("FunctionProtoType", NoName, NoName, <<ret>> \o args)>>)>>)>>)

ConstPtrTo(x) == <<"const", SP, x, SP, "*">>
PtrTo(x) == <<x, SP, "*">>

RecFoo == Record(<<"Foo">>, <<Field(<<"x">>, <<"int">>)>>)
RecS == Record(<<"S">>, <<Field(<<"x">>, <<"int">>)>>)
RecBar == Record(<<"Bar">>, <<Field(<<"a">>, ConstPtrTo("Foo")), Field(<<"b">>, ConstPtrTo("Foo"))>>)
RecBarPtr == Record(<<"Bar">>, <<Field(<<"a">>, PtrTo("Foo")), Field(<<"b">>, PtrTo("Foo"))>>)
RecBarMissing == Record(<<"Bar">>, <<Field(<<"a">>, <<"Missing">>)>>)
RecBarArray == Record(<<"Bar">>, <<Field(<<"a">>, <<"Foo", "[", "2", "]">>)>>)
\* struct U { int tag; union { int i; float f; } u; }
RecU == Record(<<"U">>, <<Field(<<"tag">>, <<"int">>), AnonUnion(Later),
                          Item("FieldDecl", <<"u">>, NoName, "", Later, Later, <<>>)>>)
\* The union is followed by a field of its own, declared further down.
RecUOther == Record(<<"U">>, <<AnonUnion(Here), Field(<<"w">>, <<"int">>)>>)

TdLazyT == Stmt("TypedefDecl", <<"T">>, <<"struct", SP, "S">>, <<TagRef(<<"S">>)>>)
TdSelfS == Stmt("TypedefDecl", <<"S">>, <<"struct", SP, "S">>, <<TagRef(<<"S">>)>>)
TdUnionX == Stmt("TypedefDecl", <<"X">>, <<"union", SP, "Un">>, <<TagRef(<<"Un">>)>>)
TdAliasFoo ==
    [Stmt("TypedefDecl", <<"T">>, <<"Foo">>, <<TypeAst("TypedefType", <<"Foo">>, <<"Foo">>, <<>>)>>)
        EXCEPT !.typeAliasDeclId = TRUE]
\* typedef T T; after T is a typedef name.
TdSelfT ==
    [Stmt("TypedefDecl", <<"T">>, <<"T">>, <<TypeAst("TypedefType", <<"T">>, <<"T">>, <<>>)>>)
        EXCEPT !.typeAliasDeclId = TRUE]
\* typedef Foo __NSFoo; and typedef Foo __builtin_foo;
TdNS ==
    [Stmt("TypedefDecl", <<"__NS", "Foo">>, <<"Foo">>,
          <<TypeAst("TypedefType", <<"Foo">>, <<"Foo">>, <<>>)>>)
        EXCEPT !.typeAliasDeclId = TRUE]
TdBuiltinPrefix ==
    [Stmt("TypedefDecl", <<"__builtin_", "foo">>, <<"Foo">>,
          <<TypeAst("TypedefType", <<"Foo">>, <<"Foo">>, <<>>)>>)
        EXCEPT !.typeAliasDeclId = TRUE]
\* struct Ext { int x; } of a file that another header includes.
RecExt ==
    [Record(<<"Ext">>, <<Field(<<"x">>, <<"int">>)>>)
        EXCEPT !.includedFrom = <<"/usr/include/", "other.h">>]
TdOpaqueH ==
    Stmt("TypedefDecl", <<"H">>, <<"struct", SP, "HImpl", SP, "*">>,
         <<TypeAst("PointerType", <<"struct", SP, "HImpl", SP, "*">>, NoName,
                   <<TagRef(<<"HImpl">>)>>)>>)
TdArray == Stmt("TypedefDecl", <<"Arr">>, <<"int", "[", "2", "]">>,
                <<TypeAst("ConstantArrayType", <<"int", "[", "2", "]">>, NoName, <<>>)>>)
TdCbInt == FuncPointerTypedef(<<"Cb">>, TypeAst("BuiltinType", <<"void">>, NoName, <<>>),
                              <<TypeAst("BuiltinType", <<"int">>, NoName, <<>>)>>)
TdCbFoo == FuncPointerTypedef(<<"Cb">>, TypeAst("BuiltinType", <<"void">>, NoName, <<>>),
                              <<TagRef(<<"Foo">>)>>)

FnInt == Function(<<"g">>, <<"int">>, <<Parm(<<"a">>, <<"int">>)>>)
FnFooByValue == Function(<<"f">>, <<"void">>, <<Parm(<<"x">>, <<"Foo">>)>>)
FnFooPtr == Function(<<"h">>, <<"void">>, <<Parm(<<"p">>, ConstPtrTo("Foo")), Parm(<<"q">>, PtrTo("Foo"))>>)
FnMissingPtr == Function(<<"h">>, <<"void">>, <<Parm(<<"p">>, ConstPtrTo("Missing"))>>)
FnMissingRet == Function(<<"f">>, <<"Missing">>, <<>>)
FnCb == Function(<<"k">>, <<"void">>, <<Parm(<<"cb">>, <<"Cb">>)>>)
FnU == Function(<<"f">>, <<"void">>, <<Parm(<<"x">>, <<"U">>)>>)

PointerFamily == {RecFoo, RecBar, RecBarPtr, RecBarArray, TdOpaqueH, FnFooPtr}
LazyFamily == {RecS, RecFoo, TdLazyT, TdSelfS, TdAliasFoo, TdArray}
MissingFamily == {RecFoo, RecBarMissing, FnMissingPtr, FnMissingRet, TdUnionX, TdAliasFoo}
UnionFamily == {RecU, RecUOther, RecFoo, FnInt, FnU}
FunctionFamily == {RecFoo, FnInt, FnFooByValue, FnCb, TdCbInt, TdCbFoo}
FilterFamily == {RecFoo, RecExt, TdNS, TdBuiltinPrefix, TdAliasFoo, TdSelfT}
EnumConstant(name, inner) == Item("EnumConstantDecl", name, NoName, "", Here, Here, inner)
MemberNames == <<"A", "B", "C", "D", "E">>
\* enum { A } at line 5, column 9, and the typedefs of a name E that may
\* follow it: `typedef enum { A } E;` begins on the enum's line to its left;
\* the others begin on a later line, and on an earlier line further right.
AnonEnumAt(loc, inits) ==
    [Stmt("EnumDecl", NoName, NoName,
          [i \in 1..Len(inits) |-> EnumConstant(<<MemberNames[i]>>, inits[i])])
        EXCEPT !.loc = loc]
AnonEnum == AnonEnumAt(Pos(5, 9), <<<<>>, <<>>>>)
AnonEnumMixed == AnonEnumAt(Pos(5, 9), <<<<DeclRefExpr(<<"A">>)>>, <<>>>>)
TdNaming(begin) ==
    [Stmt("TypedefDecl", <<"E">>, <<"enum", SP, "E">>, <<TagRef(<<"E">>)>>)
        EXCEPT !.rangeBegin = begin]
TdNameIdiom == TdNaming(Pos(5, 1))
TdNameLater == TdNaming(Pos(9, 1))
TdNameAboveRight == TdNaming(Pos(3, 12))
EnumFamily == {AnonEnum, AnonEnumMixed, TdNameIdiom, TdNameLater, TdNameAboveRight, RecFoo}
\* struct G { const char *s; const char *a[2]; Foo *p[2]; const Foo *c;
\*            Foo *const q; Foo v; Foo m[2][2]; }
RecG ==
    Record(<<"G">>, <<Field(<<"s">>, <<"const", SP, "char", SP, "*">>),
                      Field(<<"a">>, <<"const", SP, "char", SP, "*", "[", "2", "]">>),
                      Field(<<"p">>, <<"Foo", SP, "*", "[", "2", "]">>),
                      Field(<<"c">>, ConstPtrTo("Foo")),
                      Field(<<"q">>, <<"Foo", SP, "*", "const">>),
                      Field(<<"v">>, <<"Foo">>),
                      Field(<<"m">>, <<"Foo", "[", "2", "]", "[", "2", "]">>)>>)
\* A struct of the header that is named like the builtin of `const char *`.
RecCString == Record(<<"CString">>, <<Field(<<"x">>, <<"int">>)>>)
\* int m(int a, const Foo *p, int b);
FnMixed ==
    Function(<<"m">>, <<"int">>,
             <<Parm(<<"a">>, <<"int">>), Parm(<<"p">>, ConstPtrTo("Foo")), Parm(<<"b">>, <<"int">>)>>)
GrammarFamily == {RecFoo, RecG, RecCString, FnMixed}
Families ==
    {PointerFamily, LazyFamily, MissingFamily, UnionFamily, FunctionFamily, FilterFamily,
     EnumFamily, GrammarFamily}

RECURSIVE SeqsUpTo(_, _)
SeqsUpTo(S, n) ==
    IF n = 0 THEN {<<>>}
    ELSE LET shorter == SeqsUpTo(S, n - 1)
         IN  shorter \cup {Append(q, x) : q \in shorter, x \in S}

\* The initializers an enum member may carry; <<>> is the implicit member.
Initializers ==
    { <<>>,
      <<ConstantExpr(IntegerLiteral("10"))>>,
      <<ParenExpr(BinaryOperator("<<", IntegerLiteral("1"), IntegerLiteral("2")))>>,
      <<DeclRefExpr(<<"A">>)>> }
EnumOf(inits) ==
    Stmt("EnumDecl", <<"E">>, NoName,
         [i \in 1..Len(inits) |-> EnumConstant(<<MemberNames[i]>>, inits[i])])
EnumInputs == {<<EnumOf(inits)>> : inits \in SeqsUpTo(Initializers, MaxMembers) \ {<<>>}}

Inputs == UNION {SeqsUpTo(F, MaxStatements) : F \in Families} \cup EnumInputs

\* The partial option objects a CodeGen is constructed with.
PartialOpts ==
    { <<>>,
      [throwOnErrors |-> TRUE],
      [readers |-> FALSE, writers |-> FALSE],
      [funcSymbolsImport |-> FALSE],
      [funcWrappers |-> FALSE],
      [funcDeclTypes |-> TRUE, structSizes |-> TRUE, helpers |-> FALSE],
      [structAllocs |-> FALSE, identWidth |-> 2] }

\* ------------------------------------------------------------------- state

VARIABLES
    astJson,          \* the declaration tree handed to parseClangAst
    statementIndex,   \* the loop variable of parseClangAst
    pc,               \* "parsing", "parsed" (result returned), "threw",
                      \* "constructed" (new CodeGen), "generated", "gen_threw"
    heap,             \* the nodes
    decls,            \* result.decls
    lazyAliases,      \* lazyAliases
    ptrTypeSymbols,   \* result.ptrTypeSymbols
    funcTypeSymbols,  \* result.funcTypeSymbols
    sizeOf,           \* clangTypeInfoCache.sizeOf
    offsetOf,         \* clangTypeInfoCache.offsetOf
    probes,           \* the probes compiled and run, in order
    err,              \* the message of the Error the last call threw
    opts,             \* CodeGen.opts; <<>> before the constructor has run
    out,              \* CodeGen.out
    failedSymbols,    \* CodeGen.failedSymbols
    calls,            \* the number of generateAll calls made on the CodeGen
    buffer,           \* the Buffer the last call of a binding wrote or returned
    call              \* the last call of an emitted binding, NoCall before any

parserVars == <<heap, decls, lazyAliases, ptrTypeSymbols, funcTypeSymbols, sizeOf, offsetOf,
                probes>>
genVars == <<opts, out, failedSymbols, calls>>
runVars == <<buffer, call>>
vars == <<astJson, statementIndex, pc, heap, decls, lazyAliases, ptrTypeSymbols,
          funcTypeSymbols, sizeOf, offsetOf, probes, err, opts, out, failedSymbols, calls,
          buffer, call>>

Ctx ==
    [heap |-> heap, decls |-> decls, lazy |-> lazyAliases, ptrTypeSymbols |-> ptrTypeSymbols,
     funcTypeSymbols |-> funcTypeSymbols, sizeOf |-> sizeOf, offsetOf |-> offsetOf,
     probes |-> probes, err |-> err]

EmptyCtx ==
    [heap |-> <<>>, decls |-> <<>>, lazy |-> <<>>, ptrTypeSymbols |-> {},
     funcTypeSymbols |-> {}, sizeOf |-> <<>>, offsetOf |-> <<>>, probes |-> <<>>,
     err |-> NoErr]

\* A call of a binding: alloc_<name>(x), write_<name>(x, before, 0) or
\* read_<name>(before, 0) after the alloc or write named by via.
Call(op, name, x, before, threw, result, via) ==
    [op |-> op, name |-> name, x |-> x, before |-> before, threw |-> threw,
     result |-> result, via |-> via]
NoCall == Call("none", NoName, <<>>, <<>>, FALSE, <<>>, "none")

\* parseClangAst is entered on one of the inputs: the registry holds the
\* builtin types.
InitOn(inputs) ==
    \E input \in inputs : \E c \in {emitBuiltinTypes(EmptyCtx)} :
        /\ astJson = input
        /\ statementIndex = 1
        /\ pc = "parsing"
        /\ heap = c.heap
        /\ decls = c.decls
        /\ lazyAliases = c.lazy
        /\ ptrTypeSymbols = c.ptrTypeSymbols
        /\ funcTypeSymbols = c.funcTypeSymbols
        /\ sizeOf = c.sizeOf
        /\ offsetOf = c.offsetOf
        /\ probes = c.probes
        /\ err = c.err
        /\ opts = <<>>
        /\ out = <<>>
        /\ failedSymbols = {}
        /\ calls = 0
        /\ buffer = <<>>
        /\ call = NoCall

Init == InitOn(Inputs)

\* One iteration of the loop of parseClangAst; an Error ends the call.
ParseStep ==
    /\ pc = "parsing"
    /\ statementIndex <= Len(astJson)
    /\ \E c \in {Ctx} : \E r \in {ParseStatement(c, astJson, statementIndex)} :
        /\ heap' = r.c.heap
        /\ decls' = r.c.decls
        /\ lazyAliases' = r.c.lazy
        /\ ptrTypeSymbols' = r.c.ptrTypeSymbols
        /\ funcTypeSymbols' = r.c.funcTypeSymbols
        /\ sizeOf' = r.c.sizeOf
        /\ offsetOf' = r.c.offsetOf
        /\ probes' = r.c.probes
        /\ err' = r.c.err
        /\ statementIndex' = IF r.c.err # NoErr THEN statementIndex ELSE r.v
        /\ pc' = IF r.c.err # NoErr THEN "threw" ELSE "parsing"
    /\ UNCHANGED <<astJson, genVars, runVars>>

\* The loop is over: parseClangAst returns result.
ParseReturn ==
    /\ pc = "parsing"
    /\ statementIndex > Len(astJson)
    /\ pc' = "parsed"
    /\ UNCHANGED <<astJson, statementIndex, parserVars, err, genVars, runVars>>

\* new CodeGen(opts) on the returned result.
NewCodeGen ==
    /\ pc = "parsed"
    /\ \E partial \in PartialOpts : opts' = NewOpts(partial)
    /\ out' = <<>>
    /\ failedSymbols' = {}
    /\ pc' = "constructed"
    /\ UNCHANGED <<astJson, statementIndex, parserVars, err, calls, runVars>>

\* codeGen.generateAll(result), a whole call; it may be made again.
GenerateAll ==
    /\ pc \in {"constructed", "generated", "gen_threw"}
    /\ calls < MaxCalls
    /\ \E parsed \in {[decls |-> decls, heap |-> heap]} :
       \E self \in {This(out, failedSymbols)} :
       \E t \in {generateAll(opts, self, parsed)} :
           /\ out' = t.out
           /\ failedSymbols' = t.failedSymbols
           /\ err' = t.err
           /\ pc' = IF t.err # NoErr THEN "gen_threw" ELSE "generated"
    /\ calls' = calls + 1
    /\ UNCHANGED <<astJson, statementIndex, parserVars, opts, runVars>>

Next == ParseStep \/ ParseReturn \/ NewCodeGen \/ GenerateAll

Spec == Init /\ [][Next]_vars


\* ------------------------------------------------------- calling the bindings
\* The emitted module is used: a caller allocates, writes and reads structs
\* and builtin values through the bindings of one generateAll call.

\* struct L { unsigned int a; unsigned char b; unsigned long long c; }
RecL ==
    Record(<<"L">>, <<Field(<<"a">>, <<"unsigned", SP, "int">>),
                      Field(<<"b">>, <<"unsigned", SP, "char">>),
                      Field(<<"c">>, <<"unsigned", SP, "long", SP, "long">>)>>)
\* struct Outer { Foo inner; char tag; }
RecOuter == Record(<<"Outer">>, <<Field(<<"inner">>, <<"Foo">>), Field(<<"tag">>, <<"char">>)>>)
BindingInputs ==
    { <<RecL>>, <<RecFoo, RecOuter>>, <<RecFoo, RecBar>>, <<RecFoo, RecBarArray>>, <<RecU>>,
      <<EnumOf(<<<<>>, <<>>>>)>> }

\* The width and signedness of the integers a marshal-level type carries.
FFIAccess ==
    ("BunFFIType.int8_t" :> IntAccess(1, TRUE)) @@ ("BunFFIType.int16_t" :> IntAccess(2, TRUE))
    @@ ("BunFFIType.int32_t" :> IntAccess(4, TRUE))
    @@ ("BunFFIType.int64_t" :> IntAccess(8, TRUE))
    @@ ("BunFFIType.uint8_t" :> IntAccess(1, FALSE))
    @@ ("BunFFIType.uint16_t" :> IntAccess(2, FALSE))
    @@ ("BunFFIType.uint32_t" :> IntAccess(4, FALSE))
    @@ ("BunFFIType.uint64_t" :> IntAccess(8, FALSE))
    @@ ("BunFFIType.pointer" :> IntAccess(8, FALSE))

Zero == Num(FALSE, <<>>)
Five == Num(FALSE, <<5>>)
\* Zero, a small value, the maximum of the width and, for a signed type, -1
\* and the minimum.
IntValues(access) ==
    {Zero, Five}
    \cup (IF access.signed
          THEN {Num(FALSE, [i \in 1..access.width |-> IF i = access.width THEN 127 ELSE 255]),
                Num(TRUE, <<1>>),
                Num(TRUE, [i \in 1..access.width |-> IF i = access.width THEN 128 ELSE 0])}
          ELSE {Num(FALSE, [i \in 1..access.width |-> 255])})

\* The values of a type of the graph: objects with every field (partial =
\* FALSE) or with any of the fields (partial = TRUE).
RECURSIVE ValuesOf(_, _, _)
RECURSIVE Objects(_, _, _, _)
ValuesOf(h, id, partial) ==
    CASE h[id].type = "alias" -> ValuesOf(h, h[id].aliasTo, partial)
      [] h[id].type = "builtin" ->
            IF h[id].ffiType \in DOMAIN FFIAccess THEN IntValues(FFIAccess[h[id].ffiType])
            ELSE {}
      [] h[id].type = "enum" -> {Zero, Num(FALSE, <<1>>)}
      [] h[id].type \in {"pointer", "func_pointer"} -> {Zero, Five}
      [] h[id].type = "struct" -> Objects(h, h[id].fields, partial, 1)
      [] h[id].type = "static_array" ->
            {[i \in 1..h[id].length |-> v] : v \in ValuesOf(h, h[id].itemType, FALSE)}
      [] OTHER -> {}
Objects(h, fields, partial, i) ==
    IF i > Len(fields) THEN {<<>>}
    ELSE LET rest == Objects(h, fields, partial, i + 1)
             here == ValuesOf(h, fields[i].valueType, partial)
         IN  {(fields[i].name :> v) @@ o : v \in here, o \in rest}
             \cup (IF partial THEN rest ELSE {})

\* The declarations a caller can name: structs, enums and the builtin
\* integers.
Callable(k) ==
    /\ heap[decls[k].id].type \in {"struct", "enum", "builtin"}
    /\ ValuesOf(heap, decls[k].id, FALSE) # {}

\* const buffer = alloc_<name>(x), the caller's first use of the bindings.
CallAlloc ==
    /\ pc = "generated"
    /\ calls = 1
    /\ call = NoCall
    /\ \E k \in 1..Len(decls) :
          /\ heap[decls[k].id].type = "struct"
          /\ Binding(out, "alloc", decls[k].name).kind # "none"
          /\ \E x \in ValuesOf(heap, decls[k].id, TRUE) :
             \E r \in {alloc(out, decls[k].name, x)} :
                /\ buffer' = IF r.ok THEN r.buffer ELSE buffer
                /\ call' = Call("alloc", decls[k].name, x, <<>>, ~r.ok, <<>>, "none")
    /\ UNCHANGED <<astJson, statementIndex, pc, parserVars, err, genVars>>

\* write_<name>(x, buffer, 0) on a buffer of the size of the type, filled
\* with the byte fill.
CallWrite ==
    /\ pc = "generated"
    /\ calls = 1
    /\ call = NoCall
    /\ \E k \in 1..Len(decls) : \E fill \in {0, 170} :
          /\ Callable(k)
          /\ Binding(out, "write", decls[k].name).kind # "none"
          /\ \E x \in ValuesOf(heap, decls[k].id, heap[decls[k].id].type = "struct") :
             \E before \in {[i \in 1..heap[decls[k].id].size |-> fill]} :
             \E r \in {write(out, decls[k].name, x, before, 0)} :
                /\ buffer' = IF r.ok THEN r.buffer ELSE before
                /\ call' = Call("write", decls[k].name, x, before, ~r.ok, <<>>, "none")
    /\ UNCHANGED <<astJson, statementIndex, pc, parserVars, err, genVars>>

\* read_<name>(ptr(buffer), 0) of what the last alloc or write stored.
CallRead ==
    /\ pc = "generated"
    /\ call.op \in {"alloc", "write"}
    /\ ~call.threw
    /\ Binding(out, "read", call.name).kind # "none"
    /\ \E r \in {read(out, call.name, buffer, 0)} :
          call' = Call("read", call.name, call.x, buffer, ~r.ok, r.v, call.op)
    /\ UNCHANGED <<astJson, statementIndex, pc, parserVars, err, genVars, buffer>>

NextBindings == Next \/ CallAlloc \/ CallWrite \/ CallRead

BindingsSpec == InitOn(BindingInputs) /\ [][NextBindings]_vars

\* ------------------------------------------------------- the oracle by itself
\* clangGetSizeOf and clangGetOffsetOf called directly, one call after the
\* other, on one ClangTypeInfoCache.  A call that throws is caught by the
\* caller, who goes on querying.

MaxProbes == 3
QueriedTypes == {<<"Foo">>, <<"Bar">>, <<"Missing">>}
QueriedFields == {<<"x">>, <<"a">>}

InitOracle ==
    \E c \in {EmptyCtx} :
        /\ astJson = <<>>
        /\ statementIndex = 1
        /\ pc = "oracle"
        /\ heap = c.heap
        /\ decls = c.decls
        /\ lazyAliases = c.lazy
        /\ ptrTypeSymbols = c.ptrTypeSymbols
        /\ funcTypeSymbols = c.funcTypeSymbols
        /\ sizeOf = c.sizeOf
        /\ offsetOf = c.offsetOf
        /\ probes = c.probes
        /\ err = c.err
        /\ opts = <<>>
        /\ out = <<>>
        /\ failedSymbols = {}
        /\ calls = 0
        /\ buffer = <<>>
        /\ call = NoCall

\* clangGetSizeOf(headerPath, cTypeName, cache)
QuerySize ==
    /\ pc = "oracle"
    /\ \E cTypeName \in QueriedTypes : \E r \in {clangGetSizeOf(Ctx, cTypeName)} :
          /\ Len(r.c.probes) <= MaxProbes
          /\ sizeOf' = r.c.sizeOf
          /\ offsetOf' = r.c.offsetOf
          /\ probes' = r.c.probes
          /\ call' = Call("clangGetSizeOf", SizeKey(cTypeName), <<>>, <<>>, r.c.err # NoErr,
                          r.v, IF r.c.probes = probes THEN "cache" ELSE "probe")
    /\ UNCHANGED <<astJson, statementIndex, pc, heap, decls, lazyAliases, ptrTypeSymbols,
                   funcTypeSymbols, err, genVars, buffer>>

\* clangGetOffsetOf(headerPath, cTypeName, fieldName, cache)
QueryOffset ==
    /\ pc = "oracle"
    /\ \E cTypeName \in QueriedTypes : \E fieldName \in QueriedFields :
       \E r \in {clangGetOffsetOf(Ctx, cTypeName, fieldName)} :
          /\ Len(r.c.probes) <= MaxProbes
          /\ sizeOf' = r.c.sizeOf
          /\ offsetOf' = r.c.offsetOf
          /\ probes' = r.c.probes
          /\ call' = Call("clangGetOffsetOf", OffsetKey(cTypeName, fieldName), <<>>, <<>>,
                          r.c.err # NoErr, r.v,
                          IF r.c.probes = probes THEN "cache" ELSE "probe")
    /\ UNCHANGED <<astJson, statementIndex, pc, heap, decls, lazyAliases, ptrTypeSymbols,
                   funcTypeSymbols, err, genVars, buffer>>

NextOracle == QuerySize \/ QueryOffset

OracleSpec == InitOracle /\ [][NextOracle]_vars

\* ------------------------------------------------------------------ claims
\* What the claims speak of, in terms of the state.

Registered(name) == MapHas(decls, name)
DeclOf(name) == heap[MapGet(decls, name).id]
\* A node of that name is a value of the registry, or the name is a key of it.
InRegistry(name) == MapHas(decls, name) \/ \E i \in 1..Len(decls) : heap[decls[i].id].name = name
\* No later statement of the input carries the name of statement s.
LastOfName(s) == \A s2 \in (s + 1)..Len(astJson) : astJson[s2].name # astJson[s].name
FieldNamed(decl, name) ==
    decl.fields[CHOOSE k \in 1..Len(decl.fields) : decl.fields[k].name = name]
StripAlias(id) == IF heap[id].type = "alias" THEN heap[id].aliasTo ELSE id

\* An initializer that is an integer literal, and its digits.
IsIntegerInit(inner) ==
    /\ inner # <<>>
    /\ \/ inner[1].kind = "IntegerLiteral"
       \/ inner[1].kind = "ConstantExpr" /\ inner[1].inner[1].kind = "IntegerLiteral"
\* A named enum whose members are each implicit or an integer literal.
PlainEnum(st) ==
    /\ st.kind = "EnumDecl"
    /\ st.name # NoName
    /\ \A i \in 1..Len(st.inner) :
          st.inner[i].inner = <<>> \/ IsIntegerInit(st.inner[i].inner)

\* C1: in an enum whose members are each implicit or an explicit integer
\* literal, a first implicit member gets 0 and an implicit member that follows
\* a member of value v gets v + 1 ([A, B, C=10, D] gives 0, 1, 10, 11).
C1_EnumImplicitCounters ==
    \A s \in 1..Len(astJson) :
        (pc = "parsed" /\ PlainEnum(astJson[s]) /\ LastOfName(s)
            /\ Registered(astJson[s].name) /\ DeclOf(astJson[s].name).type = "enum")
        => \A i \in 1..Len(astJson[s].inner) :
              astJson[s].inner[i].inner = <<>>
              => DeclOf(astJson[s].name).fields[i].value
                    = EnumValue("int",
                        <<IF i = 1 THEN "0"
                          ELSE NumberToString(
                                 Number(DeclOf(astJson[s].name).fields[i - 1].value.value[1])
                                 + 1)>>)

\* A type string of pointer form, other than the C string.
IsPointerType(q) ==
    /\ q # <<"const", SP, "char", SP, "*">>
    /\ ~EndsWith(q, <<"]">>)
    /\ ConstPtrMatch(q).ok \/ PtrMatch(q).ok

\* C2: two struct fields with the same pointer type string (same pointee, same
\* constness) resolve to the same pointer declaration, and that declaration is
\* a named entry of the registry.
C2_PointerDeduplication ==
    \A s \in 1..Len(astJson) :
        (pc = "parsed" /\ astJson[s].kind = "RecordDecl" /\ LastOfName(s)
            /\ Registered(astJson[s].name) /\ DeclOf(astJson[s].name).type = "struct")
        => \A i, j \in 1..Len(astJson[s].inner) :
              (/\ i # j
               /\ astJson[s].inner[i].kind = "FieldDecl"
               /\ astJson[s].inner[j].kind = "FieldDecl"
               /\ astJson[s].inner[i].qualType = astJson[s].inner[j].qualType
               /\ IsPointerType(astJson[s].inner[i].qualType))
              => LET a == StripAlias(FieldNamed(DeclOf(astJson[s].name),
                                                astJson[s].inner[i].name).valueType)
                     b == StripAlias(FieldNamed(DeclOf(astJson[s].name),
                                                astJson[s].inner[j].name).valueType)
                 IN  /\ a = b
                     /\ heap[a].type = "pointer"
                     /\ \E k \in 1..Len(decls) : decls[k].id = a

\* A typedef T of `struct S` with T different from S.
IsTagTypedef(st) ==
    /\ st.kind = "TypedefDecl"
    /\ ~st.typeAliasDeclId
    /\ Len(st.qualType) = 3
    /\ SubSeq(st.qualType, 1, 2) = <<"struct", SP>>
    /\ st.name # <<st.qualType[3]>>

\* C3: a typedef T of a struct tag S that is declared, with members, later in
\* the input is after resolve an alias T of the struct node registered under S,
\* of that struct's size, and is no longer pending.
C3_LazyAliasResolution ==
    \A i, j \in 1..Len(astJson) :
        (/\ pc = "parsed"
         /\ i < j
         /\ IsTagTypedef(astJson[i])
         /\ astJson[j].kind = "RecordDecl"
         /\ astJson[j].inner # <<>>
         /\ astJson[j].name = <<astJson[i].qualType[3]>>
         /\ \A k \in 1..(i - 1) : astJson[k].name # astJson[j].name
         /\ \A k \in 1..Len(astJson) \ {i} : astJson[k].name # astJson[i].name)
        => /\ Registered(astJson[i].name)
           /\ DeclOf(astJson[i].name).type = "alias"
           /\ DeclOf(astJson[i].name).aliasTo = MapGet(decls, astJson[j].name).id
           /\ DeclOf(astJson[i].name).size = DeclOf(astJson[j].name).size
           /\ ~MapHas(lazyAliases, astJson[i].name)

\* C4: resolve does not return while a lazy alias is pending whose target tag
\* is declared nowhere in the input.
C4_DanglingLazyAliasIsFatal ==
    pc = "parsed"
    => \A l \in 1..Len(lazyAliases) :
          \E s \in 1..Len(astJson) :
              astJson[s].kind = "RecordDecl" /\ astJson[s].name = lazyAliases[l].aliasTo

\* C5: with throwOnErrors = false a call of generateAll runs to completion on
\* every graph resolve produces; nothing is thrown out of it.
C5_BestEffortCompletes == pc = "gen_threw" => opts.throwOnErrors

\* The functions of the graph, and those with an argument or a return type
\* that has no marshal-level type.
FuncNames == {decls[k].name : k \in {k \in 1..Len(decls) : heap[decls[k].id].type = "func_decl"}}
Unmappable ==
    {f \in FuncNames :
        \/ ~getFFIType(heap, DeclOf(f).returnType).ok
        \/ \E a \in 1..Len(DeclOf(f).args) : ~getFFIType(heap, DeclOf(f).args[a].valueType).ok}
HasImportEntry(f) ==
    \E i \in 1..Len(out) :
        out[i].indent = opts.identWidth /\ StartsWith(out[i].str, f \o <<": ">>)
HasBinding(f) ==
    \E i \in 1..Len(out) :
        \/ StartsWith(out[i].str, <<"export const ">> \o f \o <<" = bunImportedLib.symbols.">>)
        \/ StartsWith(out[i].str, <<"export function ">> \o f \o <<"(">>)

\* C6: in best-effort mode, with imports and wrappers on, the function names in
\* failedSymbols are exactly the functions with an argument or return type
\* that has no marshal-level type, and every other function has an import
\* entry and a callable binding.
C6_PartialFailureIsolation ==
    (pc = "generated" /\ ~opts.throwOnErrors /\ opts.funcSymbolsImport /\ opts.funcWrappers)
    => /\ failedSymbols \cap FuncNames = Unmappable
       /\ \A f \in FuncNames \ Unmappable : HasImportEntry(f) /\ HasBinding(f)

\* Member i of record statement st is an anonymous union that the field
\* declaration after it names.
IsMergedUnion(st, i) ==
    /\ i < Len(st.inner)
    /\ st.inner[i].kind = "RecordDecl"
    /\ st.inner[i].tagUsed = "union"
    /\ st.inner[i].name = NoName
    /\ st.inner[i + 1].kind = "FieldDecl"
    /\ st.inner[i + 1].rangeBegin.line <= st.inner[i].loc.line
    /\ st.inner[i + 1].rangeBegin.col <= st.inner[i].loc.col

\* C7: an anonymous union followed by the field declaration that names it
\* resolves to exactly one struct field for the pair: the union under that
\* name, all variants at offset 0, the field's size and the union node's size
\* both the size the oracle reports for that member.
C7_AnonymousUnionMerge ==
    \A s \in 1..Len(astJson) :
        (/\ s < statementIndex
         /\ astJson[s].kind = "RecordDecl"
         /\ \A s2 \in (s + 1)..(statementIndex - 1) : astJson[s2].name # astJson[s].name)
        => \A i \in 1..Len(astJson[s].inner) :
              IsMergedUnion(astJson[s], i)
              => LET decl == DeclOf(astJson[s].name)
                     named == {k \in 1..Len(decl.fields) :
                                  decl.fields[k].name = astJson[s].inner[i + 1].name}
                 IN  /\ Cardinality(named) = 1
                     /\ Len(decl.fields)
                           = Len(astJson[s].inner)
                             - Cardinality({m \in 1..Len(astJson[s].inner) :
                                               IsMergedUnion(astJson[s], m)})
                     /\ \A k \in named :
                           /\ heap[decl.fields[k].valueType].type = "union"
                           /\ \A v \in 1..Len(heap[decl.fields[k].valueType].variants) :
                                 heap[decl.fields[k].valueType].variants[v].offset = 0
                           /\ decl.fields[k].size
                                 = ProbeSizeOf(SizeExprOfField(astJson[s].name,
                                                               decl.fields[k].name))
                           /\ heap[decl.fields[k].valueType].size = decl.fields[k].size

\* C7 happens: resolve has returned a struct whose field u is the merged union.
C7_Witness ==
    /\ pc = "parsed"
    /\ \E s \in 1..Len(astJson) :
          /\ astJson[s].kind = "RecordDecl"
          /\ \E i \in 1..Len(astJson[s].inner) : IsMergedUnion(astJson[s], i)
          /\ Registered(astJson[s].name)
          /\ \E k \in 1..Len(DeclOf(astJson[s].name).fields) :
                heap[DeclOf(astJson[s].name).fields[k].valueType].type = "union"

\* The type name a type string refers to by value (the element type of an
\* array); <<>> when the string is of pointer form.
RECURSIVE BareNameOf(_)
BareNameOf(q) ==
    IF EndsWith(q, <<"]">>)
    THEN IF StaticArrayMatch(q).ok THEN BareNameOf(Trim(StaticArrayMatch(q).base)) ELSE <<>>
    ELSE IF q = <<"const", SP, "char", SP, "*">> \/ ConstPtrMatch(q).ok \/ PtrMatch(q).ok
    THEN <<>>
    ELSE q
\* The pointee a type string of pointer form names.
PointeeOf(q) ==
    IF ~IsPointerType(q) THEN <<>>
    ELSE IF ConstPtrMatch(q).ok THEN ConstPtrMatch(q).base
    ELSE Trim(PtrMatch(q).base)
\* The names a signature node of a function-pointer typedef looks up.
RECURSIVE AstBareNames(_)
AstBareNames(ast) ==
    CASE ast.kind = "BuiltinType" -> {ast.qualType}
      [] ast.kind \in {"TypedefType", "RecordType"} -> {ast.declName}
      [] ast.kind \in {"ElaboratedType", "QualType"} -> AstBareNames(ast.inner[1])
      [] OTHER -> {}
\* The type strings of the members of a record or of the signature of a function.
TypeStringsOf(st) ==
    IF st.kind = "RecordDecl"
    THEN {st.inner[i].qualType :
             i \in {i \in 1..Len(st.inner) : st.inner[i].kind = "FieldDecl"
                                              /\ st.inner[i].qualType # NoName}}
         \cup UNION {{st.inner[i].inner[v].qualType : v \in 1..Len(st.inner[i].inner)} :
                        i \in {i \in 1..Len(st.inner) : st.inner[i].tagUsed = "union"}}
    ELSE IF st.kind = "FunctionDecl"
    THEN {Trim(BeforeParen(st.qualType))}
         \cup {st.inner[i].qualType :
                  i \in {i \in 1..Len(st.inner) : st.inner[i].kind = "ParmVarDecl"}}
    ELSE {}
IsFallbackTypedef(st) ==
    /\ st.kind = "TypedefDecl"
    /\ ~st.typeAliasDeclId
    /\ ~IsFuncPointerTypedef(st)
    /\ ~EndsWith(st.qualType, <<SP, "*">>)
\* The names statement st refers to by value: field, element, parameter and
\* return types, the target of an alias typedef, the types of a
\* function-pointer typedef's signature.
BareRefs(st) ==
    IF st.kind = "TypedefDecl" /\ st.typeAliasDeclId THEN {st.qualType}
    ELSE IF IsFuncPointerTypedef(st)
    THEN UNION {AstBareNames(st.inner[1].inner[1].inner[1].inner[a]) :
                   a \in 1..Len(st.inner[1].inner[1].inner[1].inner)}
    ELSE {BareNameOf(q) : q \in TypeStringsOf(st)} \ {<<>>}
\* The pointees statement st names.
PointeeRefs(st) == {PointeeOf(q) : q \in TypeStringsOf(st)} \ {<<>>}
\* The loop of resolve is about to look at a statement it does not filter.
AtStatement ==
    pc = "parsing" /\ statementIndex <= Len(astJson) /\ ~filterStatement(astJson[statementIndex])
NotFoundErrors == {"not found", "decl not found"}

\* A missing name referred to by value aborts resolve with a not-found error,
\* and nothing is registered.
AbortsOnMissingName ==
    (AtStatement /\ \E n \in BareRefs(astJson[statementIndex]) : ~InRegistry(n))
    => /\ pc' = "threw"
       /\ err' \in NotFoundErrors
       /\ decls' = decls
       /\ lazyAliases' = lazyAliases

\* A missing pointee by itself raises no not-found error; a pointer node made
\* in the step has no base type, or one that the registry holds.
MissingPointeeDoesNotAbort ==
    (/\ AtStatement
     /\ \A n \in BareRefs(astJson[statementIndex]) : InRegistry(n)
     /\ \E n \in PointeeRefs(astJson[statementIndex]) : ~InRegistry(n))
    => /\ err' \notin NotFoundErrors
       /\ \A id \in (Len(heap) + 1)..Len(heap') :
             (heap'[id].type = "pointer" /\ heap'[id].baseType # 0)
             => InRegistry(heap'[heap'[id].baseType].name)

\* A plain typedef whose target is missing is skipped: pending as a lazy alias
\* when the target is written `struct X`, dropped otherwise.
MissingTypedefTargetIsSkipped ==
    (/\ AtStatement
     /\ IsFallbackTypedef(astJson[statementIndex])
     /\ BareNameOf(astJson[statementIndex].qualType) # <<>>
     /\ ~InRegistry(BareNameOf(astJson[statementIndex].qualType)))
    => /\ pc' = "parsing"
       /\ err' = NoErr
       /\ decls' = decls
       /\ lazyAliases'
             = IF StartsWith(astJson[statementIndex].qualType, <<"struct", SP>>)
               THEN MapSet(lazyAliases, astJson[statementIndex].name,
                           LazyAlias(astJson[statementIndex].name,
                                     DropFirst(astJson[statementIndex].qualType, 2)))
               ELSE lazyAliases

\* A step of resolve registers under no name but that of the statement it
\* looks at (or of the typedef that names an unnamed enum).
RegistersOwnNameOnly ==
    pc = "parsing"
    => \A k \in 1..Len(decls') :
          \/ MapHas(decls, decls'[k].name)
          \/ \E s \in {statementIndex, statementIndex + 1} \cap (1..Len(astJson)) :
                decls'[k].name = astJson[s].name

\* C8 (amended): a missing name referred to by value (field, array element,
\* parameter, return type, alias typedef target, function-pointer signature)
\* aborts resolve with a not-found error; a missing pointee does not, and a
\* plain typedef with a missing target is skipped; in no case is anything
\* registered under the missing name.
C8_MissingReference ==
    [][/\ AbortsOnMissingName
       /\ MissingPointeeDoesNotAbort
       /\ MissingTypedefTargetIsSkipped
       /\ RegistersOwnNameOnly]_vars

\* C8 happens: resolve has aborted on a statement that refers by value to a
\* name the registry does not hold.
C8_Witness ==
    /\ pc = "threw"
    /\ err \in NotFoundErrors
    /\ \E n \in BareRefs(astJson[statementIndex]) : ~InRegistry(n)

\* C8 as first stated: whenever a statement refers to a type that is not in
\* the registry (a field, parameter or return type, a pointee, or a typedef
\* target that is not a struct tag), resolve aborts with a not-found error.
C8_EveryMissingReferenceAborts ==
    [][(/\ AtStatement
        /\ \/ \E n \in BareRefs(astJson[statementIndex]) : ~InRegistry(n)
           \/ \E n \in PointeeRefs(astJson[statementIndex]) : ~InRegistry(n)
           \/ /\ IsFallbackTypedef(astJson[statementIndex])
              /\ ~StartsWith(astJson[statementIndex].qualType, <<"struct", SP>>)
              /\ BareNameOf(astJson[statementIndex].qualType) # <<>>
              /\ ~InRegistry(BareNameOf(astJson[statementIndex].qualType)))
       => (pc' = "threw" /\ err' \in NotFoundErrors)]_vars

\* An enum statement that resolve processes, in which an implicit member comes
\* after an explicit member that is no integer literal, with no explicit
\* integer member in between.
ImplicitAfterExpression(st) ==
    /\ st.kind = "EnumDecl"
    /\ st.name # NoName
    /\ ~filterStatement(st)
    /\ \E i, j \in 1..Len(st.inner) :
          /\ i < j
          /\ st.inner[i].inner # <<>>
          /\ parseEnumValue(st.inner[i].inner[1]).type \in {"expr", "alias"}
          /\ st.inner[j].inner = <<>>
          /\ \A k \in (i + 1)..(j - 1) : ~IsIntegerInit(st.inner[k].inner)

EnumErrors == {"enum with mixed implicit & explicit declarations", "unknown enum value"}

C10_NoEmitAliasesAreSilent ==
    \A k \in 1..Len(decls) :
        (heap[decls[k].id].type = "alias" /\ heap[decls[k].id].noEmit)
        => \A i \in 1..Len(out) :
              /\ ~StartsWith(out[i].str, <<"export type ">> \o decls[k].name \o <<" = ">>)
              /\ ~StartsWith(out[i].str, <<"export const read_">> \o decls[k].name
                                         \o <<" = ">>)
              /\ ~StartsWith(out[i].str, <<"export const write_">> \o decls[k].name
                                         \o <<" = ">>)

\* ------------------------------------------------ the bindings and the graph
\* What the Type Graph says a stored value looks like, computed from the nodes
\* (sizes, offsets, item types) and not from the emitted text.

\* The bytes of an integer in a width: two's complement, least significant
\* byte first.
BytesOf(value, width) ==
    IF value.neg THEN Negate(value.mag \o Zeros(width - Len(value.mag)))
    ELSE value.mag \o Zeros(width - Len(value.mag))
Overlay(before, offset, bytes) ==
    [i \in 1..Len(before) |->
        IF i > offset /\ i <= offset + Len(bytes) THEN bytes[i - offset] ELSE before[i]]
\* The buffer after the value x of the node id is stored at the offset: a
\* struct stores the fields x has at their offsets, an array its items one
\* item size apart, everything else its bytes.
RECURSIVE Stored(_, _, _, _, _)
RECURSIVE StoredFields(_, _, _, _, _, _)
RECURSIVE StoredItems(_, _, _, _, _, _)
Stored(h, id, x, before, offset) ==
    CASE h[id].type = "alias" -> Stored(h, h[id].aliasTo, x, before, offset)
      [] h[id].type = "struct" -> StoredFields(h, h[id].fields, x, before, offset, 1)
      [] h[id].type = "static_array" -> StoredItems(h, h[id], x, before, offset, 1)
      [] OTHER -> Overlay(before, offset, BytesOf(x, h[id].size))
StoredFields(h, fields, x, before, offset, i) ==
    IF i > Len(fields) THEN before
    ELSE IF fields[i].name \in DOMAIN x
    THEN StoredFields(h, fields, x,
                      Stored(h, fields[i].valueType, x[fields[i].name], before,
                             offset + fields[i].offset),
                      offset, i + 1)
    ELSE StoredFields(h, fields, x, before, offset, i + 1)
StoredItems(h, array, x, before, offset, i) ==
    IF i > array.length THEN before
    ELSE StoredItems(h, array, x,
                     Stored(h, array.itemType, x[i], before,
                            offset + (i - 1) * h[array.itemType].size),
                     offset, i + 1)

\* The declaration the last call named.
CalledDecl == MapGet(decls, call.name).id
AllocCalled == pc = "generated" /\ call.op = "alloc"
WriteCalled == pc = "generated" /\ call.op = "write" /\ heap[CalledDecl].type = "struct"
\* The value an object of a struct reads back as when the fields it lacks
\* are zero.
RECURSIVE ZeroFilled(_, _, _)
RECURSIVE ZeroFields(_, _, _, _)
ZeroFilled(h, id, x) ==
    CASE h[id].type = "alias" -> ZeroFilled(h, h[id].aliasTo, x)
      [] h[id].type = "struct" -> ZeroFields(h, h[id].fields, x, 1)
      [] h[id].type = "static_array" -> [i \in 1..h[id].length |-> ZeroFilled(h, h[id].itemType, x[i])]
      [] OTHER -> x
ZeroFields(h, fields, x, i) ==
    IF i > Len(fields) THEN <<>>
    ELSE (fields[i].name :>
            (IF fields[i].name \in DOMAIN x
             THEN ZeroFilled(h, fields[i].valueType, x[fields[i].name])
             ELSE ZeroFilled(h, fields[i].valueType, <<>>)))
         @@ ZeroFields(h, fields, x, i + 1)

\* C11: the struct allocator called without a caller buffer returns a buffer
\* of the struct's size that holds every field of the argument at the field's
\* offset and zero everywhere else, and the struct writer stores the fields
\* of its argument and leaves every other byte of the buffer as it was.
C11_StructFrame ==
    /\ AllocCalled =>
          /\ ~call.threw
          /\ buffer = Stored(heap, CalledDecl, call.x, Zeros(heap[CalledDecl].size), 0)
    /\ WriteCalled =>
          /\ ~call.threw
          /\ buffer = Stored(heap, CalledDecl, call.x, call.before, 0)
\* The claim on structs whose allocator and writer return.
C11_FrameWhenReturned ==
    /\ AllocCalled /\ ~call.threw =>
          buffer = Stored(heap, CalledDecl, call.x, Zeros(heap[CalledDecl].size), 0)
    /\ WriteCalled /\ ~call.threw =>
          buffer = Stored(heap, CalledDecl, call.x, call.before, 0)
\* alloc_L({b: 5}) returned and the buffer was read back.
C11_AllocOnlyB ==
    /\ pc = "generated" /\ call.op = "read" /\ call.via = "alloc" /\ ~call.threw
    /\ call.name = <<"L">>
    /\ call.x = (<<"b">> :> Five)
    /\ call.result = (<<"a">> :> Zero) @@ (<<"b">> :> Five) @@ (<<"c">> :> Zero)
\* A struct allocator or writer that was called and threw.
C11_StoreThrew == (AllocCalled \/ WriteCalled) /\ call.threw

\* The last store was of a whole value of its type: an integer of the width,
\* or an object with every field.
WholeValue == call.x \in ValuesOf(heap, CalledDecl, FALSE)
WriteReturned == pc = "generated" /\ call.op = "write" /\ WholeValue
ReadAfterWrite == pc = "generated" /\ call.op = "read" /\ call.via = "write" /\ WholeValue

\* C12: for every builtin and struct type the emitted writer and reader are
\* inverse: writing a whole value at offset 0 and reading at offset 0 returns
\* the value written, also when the struct has fields of static-array, union
\* or nested struct type.
C12_RoundTrip ==
    /\ WriteReturned => ~call.threw
    /\ ReadAfterWrite => ~call.threw /\ call.result = call.x
\* The round trip of the values whose writer returns.
C12_RoundTripWhenWritten == ReadAfterWrite => ~call.threw /\ call.result = call.x
\* A negative value of a signed builtin went through its writer and reader.
C12_NegativeRead ==
    /\ ReadAfterWrite /\ ~call.threw
    /\ heap[CalledDecl].type = "builtin"
    /\ call.x.neg /\ call.result = call.x
\* A struct with a nested struct field went through its writer and reader.
C12_NestedRead ==
    /\ ReadAfterWrite /\ ~call.threw
    /\ call.name = <<"Outer">> /\ call.result = call.x

\* The lines that open a fragment of the declaration name.
FragmentPrefixes ==
    {<<"export type ">>, <<"export enum ">>, <<"export function read_">>,
     <<"export function write_">>, <<"export const read_">>, <<"export const write_">>,
     <<"export function alloc_">>}
FragmentLines(name) ==
    {i \in 1..Len(out) :
        \E p \in FragmentPrefixes :
            /\ StartsWith(out[i].str, p \o name)
            /\ Len(out[i].str) > Len(name) + 1 => out[i].str[Len(name) + 2] # SP}
\* The registry entry a failed symbol belongs to: tryDo is given the name, or
\* read_<name> or write_<name>.
SymbolIndex(s) ==
    CHOOSE k \in 1..Len(decls) :
        s \in {decls[k].name, <<"read_">> \o decls[k].name, <<"write_">> \o decls[k].name}
\* Nothing was emitted for the declarations after the one of symbol s: no
\* fragment, no binding, and no import entry unless s itself has one.
NothingAfter(s) ==
    \A k \in (SymbolIndex(s) + 1)..Len(decls) :
        IF s \in FuncNames
        THEN /\ ~HasBinding(decls[k].name)
             /\ HasImportEntry(decls[k].name) => HasImportEntry(s)
        ELSE FragmentLines(decls[k].name) = {} /\ ~HasImportEntry(decls[k].name)
\* tryDo on a failing unit with throwOnErrors = false records the symbol and
\* returns.
TryDoReturns ==
    pc \in {"constructed", "generated", "gen_threw"} /\ ~opts.throwOnErrors =>
    \A t \in {tryDo(opts, This(out, failedSymbols), Fail("unknown ffiType"), <<"f">>)} :
        t.err = NoErr /\ t.failedSymbols = failedSymbols \cup {<<"f">>}
FailFastThrew == pc = "gen_threw" /\ opts.throwOnErrors

\* C13: with throwOnErrors = true the first failing unit makes generateAll
\* raise, its symbol is in failedSymbols by then and no later declaration is
\* processed; with throwOnErrors = false a failing unit does not raise out of
\* tryDo.
C13_FailFast ==
    /\ FailFastThrew => \E s \in failedSymbols : failedSymbols = {s} /\ NothingAfter(s)
    /\ TryDoReturns
\* The same for the errors that were raised through tryDo.
C13_FailFastThroughTryDo ==
    /\ FailFastThrew /\ failedSymbols # {}
          => \E s \in failedSymbols : failedSymbols = {s} /\ NothingAfter(s)
    /\ TryDoReturns
C13_ThrewThroughTryDo ==
    FailFastThrew /\ failedSymbols # {} /\ \E s \in failedSymbols : SymbolIndex(s) < Len(decls)

\* The statements that end in emitDecl under their own name unless resolve
\* aborts on them: named enums, records with members, functions, and the
\* typedefs of an alias or of an opaque pointer.
RegistersOwnName(st) ==
    /\ ~filterStatement(st)
    /\ \/ st.kind = "EnumDecl" /\ st.name # NoName
       \/ st.kind = "RecordDecl" /\ st.inner # <<>>
       \/ st.kind = "FunctionDecl"
       \/ st.kind = "TypedefDecl" /\ st.typeAliasDeclId
       \/ st.kind = "TypedefDecl" /\ EndsWith(st.qualType, <<SP, "*">>)
\* The loop is at a statement that registers a name the registry holds.
AtCollision ==
    /\ pc = "parsing" /\ statementIndex <= Len(astJson)
    /\ RegistersOwnName(astJson[statementIndex])
    /\ MapHas(decls, astJson[statementIndex].name)
\* What resolve throws: missing references, enum errors, malformed members,
\* a failed probe.
ResolveErrors ==
    NotFoundErrors \cup EnumErrors
    \cup {"failed match static array type", "unknown ast", "unknown field in struct",
          "unknown field kind in struct", "probe failed"}
\* The step replaces the entry of the name by the node it builds, in place.
ReplacesEntry ==
    AtCollision /\ pc' = "parsing"
    => /\ Len(decls') = Len(decls)
       /\ MapGet(decls', astJson[statementIndex].name).id > Len(heap)
       /\ \A k \in 1..Len(decls) :
             decls[k].name # astJson[statementIndex].name => decls'[k] = decls[k]
\* A step leaves the entries of all other names alone.
KeepsOtherEntries ==
    pc = "parsing"
    => \A k \in 1..Len(decls) :
          \/ decls'[k] = decls[k]
          \/ /\ decls'[k].name = decls[k].name
             /\ \E s \in {statementIndex, statementIndex + 1} \cap (1..Len(astJson)) :
                   decls[k].name = astJson[s].name
CollisionDoesNotAbort == (AtCollision /\ pc' = "threw") => err' \in ResolveErrors
UniqueNames == \A i, j \in 1..Len(decls) : decls[i].name = decls[j].name => i = j

\* C14: a declaration whose name is already registered replaces the entry of
\* that name by its own node, so that after resolve the entry is the node of
\* the last such declaration; the collision does not abort resolve, and every
\* name occurs once in the registry.
C14_LastDeclarationWins ==
    /\ []UniqueNames
    /\ [][ReplacesEntry /\ KeepsOtherEntries /\ CollisionDoesNotAbort]_vars
\* resolve returned a registry in which a later declaration replaced an
\* earlier one of the same name: Bar's field is that of the second record.
C14_Witness ==
    /\ pc = "parsed"
    /\ \E s1, s2 \in 1..Len(astJson) :
          /\ s1 < s2 /\ LastOfName(s2)
          /\ astJson[s1].name = astJson[s2].name
          /\ RegistersOwnName(astJson[s1]) /\ RegistersOwnName(astJson[s2])
          /\ astJson[s2].kind = "RecordDecl"
          /\ \E k \in 1..Len(astJson[s1].inner) : EndsWith(astJson[s1].inner[k].qualType, <<"]">>)
          /\ MapHas(decls, astJson[s2].name)
          /\ Len(DeclOf(astJson[s2].name).fields) = Len(astJson[s2].inner)
          /\ \A k \in 1..Len(astJson[s2].inner) :
                heap[DeclOf(astJson[s2].name).fields[k].valueType].type = "pointer"

\* The statements that register the name of registry entry k.
StatementsOf(k) ==
    {s \in 1..Len(astJson) : astJson[s].name = decls[k].name /\ RegistersOwnName(astJson[s])}
FromInput == {k \in 1..Len(decls) : StatementsOf(k) # {}}
LastStatementOf(k) == CHOOSE s \in StatementsOf(k) : \A s2 \in StatementsOf(k) : s >= s2
\* The line that opens the import declaration, and the lines that open a
\* wrapper.
ImportLines ==
    {i \in 1..Len(out) :
        StartsWith(out[i].str, <<"export const bunImportedLib = bunDlopen(_LIB_PATH, {">>)}
WrapperLines ==
    {i \in 1..Len(out) :
        \E f \in FuncNames :
            \/ StartsWith(out[i].str, <<"export const ">> \o f \o <<" = bunImportedLib.symbols.">>)
            \/ StartsWith(out[i].str, <<"export function ">> \o f \o <<"(">>)}
\* The registry entry whose fragment line i of out opens, 0 when the line
\* opens none.
Owner(i) ==
    IF out[i].str[1] \notin {p[1] : p \in FragmentPrefixes} THEN 0
    ELSE Let({k \in 1..Len(decls) :
                /\ StartsWith(Tail(out[i].str), decls[k].name)
                /\ Len(out[i].str) > Len(decls[k].name) + 1
                      => out[i].str[Len(decls[k].name) + 2] # SP}, LAMBDA owners :
             IF owners = {} THEN 0 ELSE Min(owners))
\* The owners of the lines lo..hi do not decrease: whether, and the first and
\* the last of them (0 when no line has one).
Span(ok, first, last) == [ok |-> ok, first |-> first, last |-> last]
RECURSIVE OwnersOf(_, _)
OwnersOf(lo, hi) ==
    IF lo > hi THEN Span(TRUE, 0, 0)
    ELSE IF lo = hi THEN Let(Owner(lo), LAMBDA k : Span(TRUE, k, k))
    ELSE Let(OwnersOf(lo, (lo + hi) \div 2), LAMBDA l :
         Let(OwnersOf((lo + hi) \div 2 + 1, hi), LAMBDA r :
             IF l.last = 0 THEN r
             ELSE IF r.last = 0 THEN l
             ELSE Span(l.ok /\ r.ok /\ l.last <= r.first, l.first, r.last)))
\* One call of generateAll has returned.
GeneratedOnce == pc = "generated" /\ calls = 1
FragmentsInRegistryOrder == OwnersOf(1, Len(out)).ok
ImportThenWrappers ==
    /\ \A j \in ImportLines : OwnersOf(j, Len(out)).last = 0
    /\ \A i \in ImportLines : \A j \in WrapperLines : i < j

\* A step of resolve appends the names it registers for the first time and
\* leaves every held name at its place.
KeepsPlaces ==
    pc = "parsing"
    => /\ Len(decls') >= Len(decls)
       /\ \A k \in 1..Len(decls) : decls'[k].name = decls[k].name

\* C15 (amended): the fragments follow the order of the registry, which is the
\* order in which resolve first registered the names (a name declared again
\* keeps its place); the import declaration comes after all fragments and
\* every wrapper after the import declaration.
C15_EmissionOrder ==
    /\ [](GeneratedOnce => FragmentsInRegistryOrder /\ ImportThenWrappers)
    /\ [][KeepsPlaces]_vars
\* Fragments of two declarations, an import declaration and a wrapper were
\* emitted, for an input that declares a name twice.
C15_Witness ==
    /\ GeneratedOnce
    /\ ImportLines # {} /\ WrapperLines # {}
    /\ \E k1, k2 \in FromInput :
          /\ k1 < k2
          /\ FragmentLines(decls[k1].name) # {} /\ FragmentLines(decls[k2].name) # {}
          /\ \A i \in FragmentLines(decls[k1].name) :
                \A j \in FragmentLines(decls[k2].name) : i < j
          /\ LastStatementOf(k1) > LastStatementOf(k2)
\* C15 as first stated: the fragments follow the order of the registry, which
\* is the order in which the declarations the entries hold occur in the input.
C15_EmissionInInputOrder ==
    GeneratedOnce
    => /\ FragmentsInRegistryOrder
       /\ \A k1, k2 \in FromInput : k1 < k2 => LastStatementOf(k1) < LastStatementOf(k2)
       /\ ImportThenWrappers

\* The cache the key of the call made in the step belongs to, before and
\* after the step, and the other one.
CacheOfCall == IF call'.op = "clangGetSizeOf" THEN sizeOf ELSE offsetOf
CacheAfterCall == IF call'.op = "clangGetSizeOf" THEN sizeOf' ELSE offsetOf'
\* A call on a cached key returns the stored value, runs no probe and leaves
\* the cache as it is.
HitReturnsStored ==
    call'.name \in DOMAIN CacheOfCall
    => /\ ~call'.threw /\ call'.result = CacheOfCall[call'.name]
       /\ probes' = probes
       /\ sizeOf' = sizeOf /\ offsetOf' = offsetOf
\* A call on a key that is not cached runs the probe once and stores what it
\* returns, under that key only.
MissProbesAndStores ==
    call'.name \notin DOMAIN CacheOfCall
    => /\ probes' = Append(probes, call'.name)
       /\ ~call'.threw =>
             /\ DOMAIN CacheAfterCall = DOMAIN CacheOfCall \cup {call'.name}
             /\ CacheAfterCall[call'.name] = call'.result
       /\ \A key \in DOMAIN CacheOfCall : CacheAfterCall[key] = CacheOfCall[key]
\* A size query leaves the offsets alone and an offset query the sizes.
CachesApart ==
    /\ call'.op = "clangGetSizeOf" => offsetOf' = offsetOf
    /\ call'.op = "clangGetOffsetOf" => sizeOf' = sizeOf
CachedKeys == DOMAIN sizeOf \cup DOMAIN offsetOf
ProbedTwice == {probes[i] : i \in {i \in 1..Len(probes) : \E j \in 1..Len(probes) : j # i /\ probes[j] = probes[i]}}

\* C16 (amended): a call on a cached key returns the stored value without a
\* probe and leaves the cache unchanged; a miss runs the probe once and stores
\* its result when the probe succeeds; the probe runs at most once for every
\* key whose probe succeeds, a failed probe stores nothing and is run again by
\* the next call on its key; size and offset entries never overwrite each
\* other.
C16_CacheOnSuccess ==
    /\ [][HitReturnsStored /\ MissProbesAndStores /\ CachesApart]_vars
    /\ [](ProbedTwice \cap CachedKeys = {})
\* A cached key was queried again, after a failed probe was repeated.
C16_Witness ==
    /\ pc = "oracle"
    /\ call.via = "cache" /\ call.name \in CachedKeys /\ \E i \in 1..Len(probes) : probes[i] = call.name
    /\ ProbedTwice # {}
\* C16 as first stated: the probe runs at most once per distinct key.
C16_ProbeOncePerKey ==
    /\ [][HitReturnsStored /\ MissProbesAndStores /\ CachesApart]_vars
    /\ [](ProbedTwice = {})

\* The statement's metadata places it outside the target header.
OutsideHeader(st) == st.includedFrom # NoName /\ ~EndsWith(st.includedFrom, headerFileBaseName)
\* A typedef whose name is the name of the type it renames, with or without
\* the tag in front.
RenamesToItself(st) ==
    /\ st.kind = "TypedefDecl"
    /\ st.qualType \in {st.name, <<"struct", SP>> \o st.name, <<"enum", SP>> \o st.name,
                         <<"union", SP>> \o st.name}
PrivatePrefixed(st) ==
    /\ st.kind = "TypedefDecl"
    /\ StartsWith(st.name, <<"__NS">>) \/ StartsWith(st.name, <<"__builtin_">>)
\* The step passes over the statement: nothing is registered, no probe is
\* run, and the loop goes on with the next statement.
PassesOver ==
    /\ decls' = decls
    /\ probes' = probes
    /\ pc' = "parsing"
    /\ statementIndex' = statementIndex + 1
AtStatementThat(P(_)) ==
    pc = "parsing" /\ statementIndex <= Len(astJson) /\ P(astJson[statementIndex])

\* C17: a declaration outside the target header, a typedef that renames a
\* type to itself and a typedef with the prefix __NS or __builtin_ is skipped
\* by resolve: no entry is added and no probe is run.
C17_FilteredAreSkipped ==
    [][/\ AtStatementThat(OutsideHeader) => PassesOver
       /\ AtStatementThat(RenamesToItself) => PassesOver
       /\ AtStatementThat(PrivatePrefixed) => PassesOver]_vars
\* The same without the typedefs that rename a typedef name to itself.
C17_FilteredByTheCode ==
    [][/\ AtStatementThat(OutsideHeader) => PassesOver
       /\ (AtStatementThat(RenamesToItself) /\ ~astJson[statementIndex].typeAliasDeclId)
             => PassesOver
       /\ AtStatementThat(PrivatePrefixed) => PassesOver]_vars
\* typedef T T; was resolved: T is an alias of the node T named before.
C17_SelfAlias ==
    /\ pc = "parsed"
    /\ MapHas(decls, <<"T">>)
    /\ DeclOf(<<"T">>).type = "alias"
    /\ heap[DeclOf(<<"T">>).aliasTo].name = <<"T">>

\* The defaults as the documentation of the options states them.
StatedDefaults ==
    [identWidth |-> 4, readers |-> TRUE, writers |-> TRUE, helpers |-> TRUE,
     funcWrappers |-> TRUE, funcSymbolsImport |-> TRUE, structAllocs |-> TRUE,
     funcDeclTypes |-> FALSE, throwOnErrors |-> FALSE, structSizes |-> FALSE]
Constructed == pc \in {"constructed", "generated", "gen_threw"}

\* C18: a CodeGen built from a partial options object has every supplied
\* option as supplied and every omitted one at its stated default, whatever
\* else is supplied; built with no options it has all the defaults.
C18_OptionDefaults ==
    /\ \A partial \in PartialOpts : \A k \in DOMAIN StatedDefaults :
          NewOpts(partial)[k] = IF k \in DOMAIN partial THEN partial[k] ELSE StatedDefaults[k]
    /\ Constructed => \E partial \in PartialOpts : opts = NewOpts(partial)
\* A CodeGen was built with readers and writers turned off and has every
\* other option at its default.
C18_Witness ==
    /\ Constructed
    /\ ~opts.readers /\ ~opts.writers
    /\ \A k \in DOMAIN StatedDefaults \ {"readers", "writers"} : opts[k] = StatedDefaults[k]

\* The type strings of pointer form that resolve has resolved, each with the
\* node it was resolved to: the fields of the registered structs and the
\* parameters of the registered functions.
ResolvedField(s, i) ==
    StripAlias(FieldNamed(DeclOf(astJson[s].name), astJson[s].inner[i].name).valueType)
ResolvedParm(s, i) == StripAlias(DeclOf(astJson[s].name).args[i].valueType)
PointerFields(s) ==
    {i \in 1..Len(astJson[s].inner) :
        /\ astJson[s].inner[i].kind = "FieldDecl"
        /\ IsPointerType(astJson[s].inner[i].qualType)}
PointerParms(s) ==
    {i \in 1..Len(astJson[s].inner) :
        /\ astJson[s].inner[i].kind = "ParmVarDecl"
        /\ IsPointerType(astJson[s].inner[i].qualType)}
ResolvedAs(kind, type) ==
    {s \in 1..Len(astJson) :
        /\ astJson[s].kind = kind /\ LastOfName(s)
        /\ Registered(astJson[s].name) /\ DeclOf(astJson[s].name).type = type}
ResolvedPointers ==
    IF pc # "parsed" THEN {}
    ELSE UNION {{<<astJson[s].inner[i].qualType, ResolvedField(s, i)>> : i \in PointerFields(s)} :
                    s \in ResolvedAs("RecordDecl", "struct")}
         \union
         UNION {{<<astJson[s].inner[i].qualType, ResolvedParm(s, i)>> : i \in PointerParms(s)} :
                    s \in ResolvedAs("FunctionDecl", "func_decl")}
\* The X and the constness of a type string `[const] X *`.
PointeeName(q) == IF ConstPtrMatch(q).ok THEN ConstPtrMatch(q).base ELSE PtrMatch(q).base
ConstPointer(q) == ConstPtrMatch(q).ok
\* The resolution reused a declaration of the registry: the node carries the
\* name its typedef gave it, where a node made on the spot carries none (a
\* later typedef of the name may since have taken its place in the registry).
Reused(id) == heap[id].name # NoName

\* C19: a registered pointer declaration that pointer resolution returns for a
\* type string `[const] X *` has the constness of the string and a base type
\* named X; a declaration with another pointee, or with none, is not returned.
C19_ReuseMatchesPointee ==
    \A r \in ResolvedPointers :
        Reused(r[2]) =>
            /\ heap[r[2]].type = "pointer"
            /\ heap[r[2]].is_const = ConstPointer(r[1])
            /\ heap[r[2]].baseType # 0
            /\ heap[heap[r[2]].baseType].name = PointeeName(r[1])
\* What the predicate of the search does ensure: the reused declaration is a
\* pointer of the string's constness, and its base type, if it has one, is
\* named X.
C19_ReuseMatchesKnownPointee ==
    \A r \in ResolvedPointers :
        Reused(r[2]) =>
            /\ heap[r[2]].type = "pointer"
            /\ heap[r[2]].is_const = ConstPointer(r[1])
            /\ heap[r[2]].baseType # 0 => heap[heap[r[2]].baseType].name = PointeeName(r[1])
\* `Foo *` was resolved to the registered opaque pointer H.
C19_OpaqueReused ==
    \E r \in ResolvedPointers :
        /\ r[1] = PtrTo("Foo")
        /\ Reused(r[2])
        /\ heap[r[2]].name = <<"H">>

\* C20: the pointer node a type string of pointer form resolves to is const
\* exactly when the string has the form `const X *`; `X *` and `X *const`
\* give a non-const pointer, also when no registered declaration matches and
\* the node is made on the spot.
C20_ConstnessFollowsString ==
    \A r \in ResolvedPointers :
        /\ heap[r[2]].type = "pointer"
        /\ heap[r[2]].is_const = ConstPointer(r[1])
\* Where the string has the const form the node is const, and a node made on
\* the spot is const whatever the string.
C20_ConstWhenSynthesized ==
    \A r \in ResolvedPointers :
        /\ heap[r[2]].type = "pointer"
        /\ ConstPointer(r[1]) => heap[r[2]].is_const
        /\ ~Reused(r[2]) => heap[r[2]].is_const
\* `Foo *` was resolved to a node made on the spot.
C20_SynthesizedForPlain ==
    \E r \in ResolvedPointers : r[1] = PtrTo("Foo") /\ ~Reused(r[2])

\* The loop is at an unnamed enum, and the node that follows it in the input.
AtUnnamedEnum ==
    /\ AtStatement
    /\ astJson[statementIndex].kind = "EnumDecl"
    /\ astJson[statementIndex].name = NoName
Follower ==
    IF statementIndex + 1 <= Len(astJson) THEN astJson[statementIndex + 1] ELSE NoStatement
\* Position a is position b or comes after it in the source.
SameOrLater(a, b) == a.line > b.line \/ (a.line = b.line /\ a.col >= b.col)
\* Position a is on no later line and in no later column than position b.
NotBelowNotRight(a, b) == a.line <= b.line /\ a.col <= b.col
\* The step makes an enum, registers it under the follower's name and goes on
\* after the follower; or it rejects the members of the enum.
AdoptsFollower ==
    \/ /\ pc' = "parsing"
       /\ statementIndex' = statementIndex + 2
       /\ MapHas(decls', Follower.name)
       /\ MapGet(decls', Follower.name).id > Len(heap)
       /\ heap'[MapGet(decls', Follower.name).id].type = "enum"
       /\ heap'[MapGet(decls', Follower.name).id].name = Follower.name
    \/ pc' = "threw" /\ err' \in EnumErrors /\ decls' = decls

\* C21: an unnamed enum takes the name of the node that follows it exactly
\* when that node is a typedef positioned at the enum's location or later,
\* and the typedef is then skipped; otherwise the enum is skipped and nothing
\* is registered.
C21_NamedByLaterTypedef ==
    [][AtUnnamedEnum =>
         IF /\ Follower.kind = "TypedefDecl"
            /\ SameOrLater(Follower.rangeBegin, astJson[statementIndex].loc)
         THEN AdoptsFollower ELSE PassesOver]_vars
\* C21 (amended): the typedef that names the enum is one that begins on the
\* enum's line or above and in the enum's column or to its left, as the
\* typedef of `typedef enum {...} Name` does.
C21_NamedByEnclosingTypedef ==
    [][AtUnnamedEnum =>
         IF /\ Follower.kind = "TypedefDecl"
            /\ NotBelowNotRight(Follower.rangeBegin, astJson[statementIndex].loc)
         THEN AdoptsFollower ELSE PassesOver]_vars
\* `typedef enum { A, B } E;` was resolved: E is an enum of A and B, and the
\* loop is past the typedef.
C21_Witness ==
    \E s \in 1..(Len(astJson) - 1) :
        /\ astJson[s] = AnonEnum
        /\ astJson[s + 1] = TdNameIdiom
        /\ statementIndex > s + 1
        /\ pc \in {"parsing", "parsed"}
        /\ MapHas(decls, <<"E">>)
        /\ DeclOf(<<"E">>).type = "enum"
        /\ Len(DeclOf(<<"E">>).fields) = 2

\* The lines of out that open the wrapper of function f, and those that are
\* its entry in an import declaration.
WrapperLinesOf(f) ==
    {i \in 1..Len(out) :
        \/ StartsWith(out[i].str, <<"export const ">> \o f \o <<" = bunImportedLib.symbols.">>)
        \/ StartsWith(out[i].str, <<"export function ">> \o f \o <<"(">>)}
ImportEntryLinesOf(f) ==
    {i \in 1..Len(out) :
        out[i].indent = opts.identWidth /\ StartsWith(out[i].str, f \o <<": ">>)}
\* Every wrapper in out comes after an import declaration with an entry of
\* its function.
WrappersAfterImport ==
    \A f \in FuncNames : \A j \in WrapperLinesOf(f) :
        \E i \in ImportLines : \E e \in ImportEntryLinesOf(f) : i < e /\ e < j

\* C22: every wrapper that generateAll emits for a function f comes after the
\* import declaration, which has an entry for f, whatever the options are.
C22_WrapperAfterImport == Constructed => WrappersAfterImport
\* The same where the import declaration is not turned off.
C22_WrapperAfterImportWhenImported ==
    Constructed /\ opts.funcSymbolsImport => WrappersAfterImport
\* generateAll has emitted a wrapper with funcSymbolsImport turned off.
C22_WrapperWithoutImport ==
    /\ pc = "generated"
    /\ ~opts.funcSymbolsImport
    /\ \E f \in FuncNames : WrapperLinesOf(f) # {}

\* The function-pointer declarations of the graph whose signature has an
\* argument or a return type with no marshal-level type.
FuncPointerNames ==
    {decls[k].name : k \in {k \in 1..Len(decls) : heap[decls[k].id].type = "func_pointer"}}
UnmappableFuncPointers ==
    {n \in FuncPointerNames : ~inlineFuncDeclFFIType(heap, DeclOf(n).decl).ok}
\* The lines generateFuncPointer emits for name n: the synonym, the reader
\* and the writer.
SynonymLine(n, l) == StartsWith(l.str, <<"export type ">> \o n \o <<" = ">>)
ReaderLine(n, l) == StartsWith(l.str, <<"export function read_">> \o n \o <<"(">>)
WriterLine(n, l) == StartsWith(l.str, <<"export function write_">> \o n \o <<"(">>)
\* generateFuncPointer of n on an empty output returns with the synonym as
\* its only line, and the failures it records are those in `failed`.
SynonymOnly(n, failed) ==
    \E t \in {generateFuncPointer(opts, This(<<>>, {}), heap, n, DeclOf(n))} :
        /\ t.err = NoErr
        /\ Len(t.out) = 1
        /\ SynonymLine(n, t.out[1])
        /\ t.failedSymbols = failed
\* The output of a returned generateAll has the synonym of n and neither its
\* reader nor its writer.
SynonymInOutput(n) ==
    /\ \E i \in 1..Len(out) : SynonymLine(n, out[i])
    /\ \A i \in 1..Len(out) : ~ReaderLine(n, out[i]) /\ ~WriterLine(n, out[i])
BestEffort == Constructed /\ ~opts.throwOnErrors

\* C23: in best-effort mode generateFuncPointer of a declaration with an
\* unmappable signature emits the synonym, no reader and no writer, returns,
\* and records the failure in failedSymbols under the declaration's name.
C23_FailureUnderOwnName ==
    BestEffort =>
        \A n \in UnmappableFuncPointers :
            /\ SynonymOnly(n, {n})
            /\ pc = "generated" => SynonymInOutput(n) /\ n \in failedSymbols
\* C23 (amended): the failure is recorded under read_<name> when readers are
\* enabled and under write_<name> when writers are enabled.
C23_FailureUnderReaderAndWriter ==
    BestEffort =>
        \A n \in UnmappableFuncPointers :
            /\ SynonymOnly(n, (IF opts.readers THEN {<<"read_">> \o n} ELSE {})
                              \cup (IF opts.writers THEN {<<"write_">> \o n} ELSE {}))
            /\ pc = "generated"
                  => /\ SynonymInOutput(n)
                     /\ opts.readers => <<"read_">> \o n \in failedSymbols
                     /\ opts.writers => <<"write_">> \o n \in failedSymbols
                     /\ n \notin failedSymbols
\* generateAll has returned in best-effort mode on a graph with the function
\* pointer Cb of a by-value struct argument, readers and writers enabled.
C23_Witness ==
    /\ pc = "generated" /\ ~opts.throwOnErrors /\ opts.readers /\ opts.writers
    /\ <<"Cb">> \in UnmappableFuncPointers
    /\ {<<"read_", "Cb">>, <<"write_", "Cb">>} \subseteq failedSymbols

\* The type strings of the fields of the registered structs, each with the
\* node the qualifier grammar gave for it.
TypedFields(s) ==
    {i \in 1..Len(astJson[s].inner) :
        astJson[s].inner[i].kind = "FieldDecl" /\ astJson[s].inner[i].qualType # NoName}
GrammarResults ==
    IF pc # "parsed" THEN {}
    ELSE UNION {{<<astJson[s].inner[i].qualType,
                   FieldNamed(DeclOf(astJson[s].name), astJson[s].inner[i].name).valueType>> :
                    i \in TypedFields(s)} :
                s \in ResolvedAs("RecordDecl", "struct")}
NarrowString == <<"const", SP, "char", SP, "*">>
IsNarrowStringBuiltin(id) ==
    heap[id].type = "builtin" /\ heap[id].ffiType = "BunFFIType.cstring"
\* Node id is what the lookup of the bare name q gives: a node of that name,
\* or the target of the silent alias of that name (`int` is int32_t).
BareName(q, id) ==
    \/ heap[id].name = q
    \/ \E e \in 1..Len(heap) :
          heap[e].type = "alias" /\ heap[e].noEmit /\ heap[e].name = q /\ heap[e].aliasTo = id
\* Node id is what the rules, tried in their order, make of type string q;
\* the second rule gives the narrow-string builtin (builtin = TRUE) or the
\* entry the registry has under the name CString.
RECURSIVE ByGrammar(_, _, _)
ByGrammar(q, id, builtin) ==
    IF StaticArrayMatch(q).ok
    THEN /\ heap[id].type = "static_array"
         /\ heap[id].length = Number(StaticArrayMatch(q).len)
         /\ heap[id].size = Times(heap[heap[id].itemType].size, heap[id].length)
         /\ ByGrammar(Trim(StaticArrayMatch(q).base), heap[id].itemType, builtin)
    ELSE IF q = NarrowString
    THEN IF builtin THEN IsNarrowStringBuiltin(id) ELSE heap[id].name = <<"CString">>
    ELSE IF ConstPtrMatch(q).ok THEN heap[StripAlias(id)].type = "pointer"
    ELSE IF PtrMatch(q).ok THEN heap[StripAlias(id)].type = "pointer"
    ELSE BareName(q, id)

\* C24: the rules of the qualifier grammar apply in a fixed order and the
\* first that matches gives the variant: `[N]` a static array of length N and
\* of size itemType.size * N whose element string is parsed in turn, then
\* `const char *` the narrow-string builtin, then the const-pointer pattern,
\* then the pointer pattern, then the lookup of the bare name.
C24_FirstRuleDecides ==
    \A r \in GrammarResults : ByGrammar(r[1], r[2], TRUE)
\* The same with `const char *` giving the registry's entry of the name
\* CString, whatever the header has made of it.
C24_FirstRuleDecidesByRegistry ==
    \A r \in GrammarResults : ByGrammar(r[1], r[2], FALSE)
\* struct G was resolved after a struct CString of the header.
C24_HeaderCString ==
    /\ pc = "parsed"
    /\ \E r \in GrammarResults : r[1] = NarrowString /\ heap[r[2]].type = "struct"
\* struct G was resolved with the builtin CString in the registry: its field
\* of type `const char *[2]` is an array of two narrow strings.
C24_ArrayOfNarrowStrings ==
    \E r \in GrammarResults :
        /\ r[1] = NarrowString \o <<"[", "2", "]">>
        /\ heap[r[2]].type = "static_array"
        /\ heap[r[2]].size = 16
        /\ IsNarrowStringBuiltin(heap[r[2]].itemType)

\* Argument i of function f, its names in the wrapper, and its semantic type
\* with aliases and pointers stripped.
ArgOf(f, i) == DeclOf(f).args[i]
InName(f, i) == ArgName(ArgOf(f, i), i)
OutName(f, i) == <<"_">> \o InName(f, i)
Stripped(f, i) == heap[getAstItemNoAliasNoPointer(heap, ArgOf(f, i).valueType)]
\* The argument has the marshal-level type pointer and is, stripped, a
\* function pointer or a struct: it is transformed before the call.
NeedsTransform(f, i) ==
    /\ getFFIType(heap, ArgOf(f, i).valueType).ok
    /\ getFFIType(heap, ArgOf(f, i).valueType).text = <<"BunFFIType.pointer">>
    /\ Stripped(f, i).type \in {"func_pointer", "struct"}
\* The lines that transform argument i: how each begins.
TransformOf(f, i) ==
    IF ~NeedsTransform(f, i) THEN <<>>
    ELSE IF Stripped(f, i).type = "func_pointer"
    THEN << <<"const ">> \o OutName(f, i) \o <<" = new BunJSCallback(">> \o InName(f, i)
            \o <<", ">> >>
    ELSE << <<"let ">> \o OutName(f, i) \o <<": Pointer | Buffer = ">> \o InName(f, i)
            \o <<" as any;">>,
            <<"if (">> \o InName(f, i) \o <<" && typeof ">> \o InName(f, i),
            OutName(f, i) \o <<" = Buffer.alloc(", NumberToString(Stripped(f, i).size), ");">>,
            <<"write_">> \o Stripped(f, i).name \o <<"(">> \o InName(f, i) \o <<", ">>
            \o OutName(f, i) \o <<", 0);">>,
            <<"}">> >>
RECURSIVE TransformsFrom(_, _)
TransformsFrom(f, i) ==
    IF i > Len(DeclOf(f).args) THEN <<>> ELSE TransformOf(f, i) \o TransformsFrom(f, i + 1)
\* The call of the native symbol: a transformed argument under its new name,
\* every other under its own, each in its position.
NativeCall(f) ==
    <<"return bunImportedLib.symbols.">> \o f \o <<"(">>
    \o Join([i \in 1..Len(DeclOf(f).args) |->
                IF NeedsTransform(f, i) THEN OutName(f, i) ELSE InName(f, i)], ", ")
    \o <<");">>
\* Line j of out opens the wrapping function of f: the transforms of its
\* arguments in their order, then the call, then the end of the function.
WrappingFunctionAt(f, j) ==
    \E body \in {TransformsFrom(f, 1)} :
        /\ StartsWith(out[j].str, <<"export function ">> \o f \o <<"(">>)
        /\ j + Len(body) + 2 <= Len(out)
        /\ \A k \in 1..Len(body) : StartsWith(out[j + k].str, body[k])
        /\ out[j + Len(body) + 1].str = NativeCall(f)
        /\ out[j + Len(body) + 2].str = <<"};">>
ReExportAt(f, j) ==
    StartsWith(out[j].str, <<"export const ">> \o f \o <<" = bunImportedLib.symbols.">> \o f
                           \o <<" as (">>)
\* What generateFuncWrapper has emitted for f is the re-export when no
\* argument needs a transform, and the wrapping function when one does.
DirectOrWrapped(f) ==
    /\ WrapperLinesOf(f) # {}
    /\ \A j \in WrapperLinesOf(f) :
          IF \E i \in 1..Len(DeclOf(f).args) : NeedsTransform(f, i)
          THEN WrappingFunctionAt(f, j) ELSE ReExportAt(f, j)
WrappersGenerated == pc = "generated" /\ opts.funcWrappers

\* C25: generateFuncWrapper emits the bare re-export of f exactly when no
\* argument with the marshal-level type pointer is, with aliases and pointers
\* stripped, a function pointer or a struct; otherwise a function that
\* transforms exactly those arguments (a callback made of the callable, the
\* object written to a buffer of the struct's size) and passes the others on
\* unchanged, each in its position.
C25_DirectOrWrapped ==
    WrappersGenerated => \A f \in FuncNames : DirectOrWrapped(f)
\* C25 (amended): the same of every function whose wrapper analysis has not
\* failed; a function recorded in failedSymbols gets neither.
C25_DirectOrWrappedUnlessFailed ==
    WrappersGenerated =>
        \A f \in FuncNames :
            IF f \in failedSymbols THEN WrapperLinesOf(f) = {} ELSE DirectOrWrapped(f)
\* int m(int a, const Foo *p, int b) has got its wrapping function: p is written
\* to a buffer of the size of Foo, a and b are passed on.
C25_Witness ==
    /\ WrappersGenerated
    /\ <<"m">> \in FuncNames \ failedSymbols
    /\ NeedsTransform(<<"m">>, 2)
    /\ \E j \in WrapperLinesOf(<<"m">>) :
          /\ WrappingFunctionAt(<<"m">>, j)
          /\ out[j + 3].str = <<"_", "p", " = Buffer.alloc(", "4", ");">>
          /\ out[j + 6].str = <<"return bunImportedLib.symbols.", "m", "(", "a", ", ", "_", "p",
                                ", ", "b", ");">>

\* The names the registry holds a pointer-like node under, and the names of
\* the function-pointer typedefs resolve has worked on.
PointerLikeNames ==
    {decls[k].name : k \in {k \in 1..Len(decls) :
                               heap[decls[k].id].type \in {"pointer", "func_pointer"}}}
FuncPointerTypedefNames ==
    {astJson[s].name : s \in {s \in 1..Len(astJson) :
        /\ ~filterStatement(astJson[s])
        /\ ~astJson[s].typeAliasDeclId
        /\ IsFuncPointerTypedef(astJson[s])}}

\* C26: after resolve ptrTypeSymbols has the name of every declaration
\* registered as a pointer-like node, opaque pointer typedefs and
\* function-pointer typedefs alike, and funcTypeSymbols is exactly the names
\* of the function-pointer typedefs, hence a subset of ptrTypeSymbols.
C26_PointerSymbolSets ==
    pc = "parsed" =>
        /\ PointerLikeNames \subseteq ptrTypeSymbols
        /\ funcTypeSymbols = FuncPointerTypedefNames
        /\ funcTypeSymbols \subseteq ptrTypeSymbols
\* What the resolver keeps: both sets are the names of the function-pointer
\* typedefs.
C26_FunctionPointerSymbolSets ==
    pc = "parsed" =>
        /\ ptrTypeSymbols = FuncPointerTypedefNames
        /\ funcTypeSymbols = FuncPointerTypedefNames
\* resolve has returned with the opaque pointer H registered and in neither
\* set.
C26_OpaqueNotInSet ==
    /\ pc = "parsed"
    /\ MapHas(decls, <<"H">>)
    /\ DeclOf(<<"H">>).type = "pointer"
    /\ <<"H">> \notin ptrTypeSymbols

\* The keys the cache holds, and the probes that failed: a probe that
\* succeeds stores its answer under its key, a probe that fails stores
\* nothing.
CacheKeys == DOMAIN sizeOf \cup DOMAIN offsetOf
FailedProbes == {i \in 1..Len(probes) : probes[i] \notin CacheKeys}
\* A step keeps every entry of the cache.
KeepsCache ==
    /\ \A k \in DOMAIN sizeOf : k \in DOMAIN sizeOf' /\ sizeOf'[k] = sizeOf[k]
    /\ \A k \in DOMAIN offsetOf : k \in DOMAIN offsetOf' /\ offsetOf'[k] = offsetOf[k]

\* C27: a failed probe of a size or an offset ends resolve with the error, so
\* that no graph is returned; nothing is probed after it, the failed query
\* is not made again, and the cache has no entry of the failed key and keeps
\* the entries of the queries before it.
C27_FailedProbeIsFatal ==
    /\ [](\A i \in FailedProbes :
             /\ pc = "threw" /\ err = "probe failed"
             /\ i = Len(probes)
             /\ \A j \in 1..(i - 1) : probes[j] # probes[i])
    /\ [][pc # "threw" /\ KeepsCache]_vars
\* resolve has ended on a failed probe after a query that succeeded: the
\* failed key is not in the cache, the earlier one is.
C27_Witness ==
    /\ pc = "threw" /\ err = "probe failed"
    /\ Len(probes) >= 2
    /\ Len(probes) \in FailedProbes
    /\ probes[1] \in CacheKeys

\* The nodes a node refers to: aliasTo, baseType, itemType, the value types
\* of fields, variants and arguments, the return type and the declaration of
\* a function pointer.
ValueTypes(members) == {members[k].valueType : k \in 1..Len(members)}
References(node) ==
    (CASE node.type = "alias" -> {node.aliasTo}
       [] node.type = "pointer" -> {node.baseType}
       [] node.type = "static_array" -> {node.itemType}
       [] node.type = "struct" -> ValueTypes(node.fields)
       [] node.type = "union" -> ValueTypes(node.variants)
       [] node.type = "func_decl" -> {node.returnType} \cup ValueTypes(node.args)
       [] node.type = "func_pointer" -> {node.decl}
       [] OTHER -> {}) \ {0}
\* Every reference is to a node made before the node that holds it, so that
\* no path of references returns to its start.
ReferencesAreOlder == \A i \in 1..Len(heap) : \A j \in References(heap[i]) : j < i
AliasSizes ==
    \A i \in 1..Len(heap) : heap[i].type = "alias" => heap[i].size = heap[heap[i].aliasTo].size
\* The walk over aliases and pointers ends on a node that is neither an alias
\* nor a pointer with a base type.
WalkEnds(id) ==
    Let(getAstItemNoAliasNoPointer(heap, id), LAMBDA e :
        /\ heap[e].type # "alias"
        /\ heap[e].type = "pointer" => heap[e].baseType = 0)

\* C28: after every prefix of the declarations the graph of nodes is acyclic
\* (a node refers only to nodes made before it), also after an entry was
\* overwritten and a lazy alias promoted; the walk over aliases and pointers
\* ends on every registered node, and every alias node has the size of its
\* target.
C28_AcyclicGraph ==
    /\ ReferencesAreOlder
    /\ AliasSizes
    /\ \A k \in 1..Len(decls) : WalkEnds(decls[k].id)
\* resolve has returned a graph in which the entry of a name was replaced by
\* the promoted lazy alias of that name: an alias of the alias the typedef
\* made.
C28_Witness ==
    /\ pc = "parsed"
    /\ \E k \in 1..Len(decls) :
          /\ heap[decls[k].id].type = "alias" /\ ~heap[decls[k].id].noEmit
          /\ heap[heap[decls[k].id].aliasTo].type = "alias"
          /\ heap[heap[decls[k].id].aliasTo].name = decls[k].name

\* The functions whose wrapper analysis fails: the return type or an argument
\* has no marshal-level type, or the callback of d.args.map throws.
WrapperFails ==
    {f \in FuncNames :
        \/ ~getFFIType(heap, DeclOf(f).returnType).ok
        \/ ~WrapperArgs(heap, DeclOf(f).args, 1, opts.identWidth, <<>>).ok}
\* Every import group of out is closed, and between its opening and its
\* closing line there are only entries of functions whose entry did not fail.
ImportGroupsClosed ==
    \A i \in ImportLines :
        \E j \in (i + 1)..Len(out) :
            /\ out[j].str = <<"});">>
            /\ \A k \in (i + 1)..(j - 1) :
                  \E f \in FuncNames \ Unmappable : k \in ImportEntryLinesOf(f)
\* The lines of out that open the transform of an argument, each of them
\* within the wrapping function of a function whose analysis did not fail.
TransformLines == {j \in 1..Len(out) : out[j].str[1] \in {"const ", "let "}}
TransformsWithinWrappers ==
    \A j \in TransformLines :
        \E f \in FuncNames \ WrapperFails : \E w \in WrapperLinesOf(f) :
            /\ WrappingFunctionAt(f, w)
            /\ w < j /\ j <= w + Len(TransformsFrom(f, 1))
\* No failed function has left text: no import entry and no wrapper of a
\* function whose import entry fails, no wrapper and no transform line of one
\* whose wrapper analysis fails.
FunctionsLeaveNoPartialText ==
    /\ \A f \in Unmappable : ImportEntryLinesOf(f) = {} /\ WrapperLinesOf(f) = {}
    /\ ImportGroupsClosed
    /\ \A f \in WrapperFails : WrapperLinesOf(f) = {}
    /\ TransformsWithinWrappers
\* The struct fragments of out are whole: the opening line of a struct's type
\* is followed by a line for each field and the closing line.
StructNames == {decls[k].name : k \in {k \in 1..Len(decls) : heap[decls[k].id].type = "struct"}}
StructTypesWhole ==
    \A n \in StructNames : \A j \in 1..Len(out) :
        out[j].str = <<"export type ">> \o n \o <<" = {">>
        => /\ j + Len(DeclOf(n).fields) + 1 <= Len(out)
           /\ out[j + Len(DeclOf(n).fields) + 1].str = <<"};">>

\* C29: in best-effort mode a unit of work that fails leaves no partial text
\* of its own in the output: a function whose import entry fails adds no line
\* to the import group and the group is still closed, a function whose
\* wrapper analysis fails adds no wrapper or transform line, and a function
\* excluded from the import group never gets a wrapper.
C29_NoPartialText ==
    BestEffort => FunctionsLeaveNoPartialText /\ StructTypesWhole
\* The same of the units that run under tryDo: the import entries and the
\* wrappers of the functions.
C29_NoPartialTextOfFunctions ==
    BestEffort => FunctionsLeaveNoPartialText
\* generateAll has left the opening of a struct's type behind in best-effort
\* mode.
C29_PartialStruct ==
    /\ pc = "gen_threw" /\ ~opts.throwOnErrors
    /\ ~StructTypesWhole

\* What one call of generateAll on a CodeGen that was just constructed would
\* record and emit for the graph.
FreshRun == generateAll(opts, This(<<>>, {}), [decls |-> decls, heap |-> heap])
IsPrefix(s, t) == Len(s) <= Len(t) /\ SubSeq(t, 1, Len(s)) = s
\* A step of a constructed CodeGen removes nothing from failedSymbols and
\* from out; a call of generateAll adds what the run alone records and emits.
Accumulates ==
    Constructed =>
        /\ failedSymbols \subseteq failedSymbols'
        /\ IsPrefix(out, out')
        /\ calls' = calls + 1 =>
              /\ failedSymbols' = failedSymbols \cup FreshRun.failedSymbols
              /\ out' = out \o FreshRun.out

\* The names a run records in best-effort mode: the functions whose import
\* entry or wrapper analysis fails, and the reader and the writer of the
\* function pointers with an unmappable signature.
RunFailures ==
    (IF opts.funcSymbolsImport THEN Unmappable ELSE {})
    \cup (IF opts.funcWrappers THEN WrapperFails ELSE {})
    \cup (IF opts.readers THEN {<<"read_">> \o n : n \in UnmappableFuncPointers} ELSE {})
    \cup (IF opts.writers THEN {<<"write_">> \o n : n \in UnmappableFuncPointers} ELSE {})

\* C30: failedSymbols of a CodeGen only grows: no operation removes a name,
\* generateAll does not reset it, and after a sequence of generateAll calls
\* it is the union of the failures of the runs; the default output buffer
\* accumulates the fragments of the runs likewise.
C30_FailedSymbolsOnlyGrows ==
    /\ [][Accumulates]_vars
    /\ [](BestEffort /\ pc = "generated" => failedSymbols = RunFailures)
\* generateAll has returned twice on one CodeGen with two failures recorded:
\* out holds the fragments of the first run followed by those of the second.
C30_Witness ==
    /\ pc = "generated" /\ calls = 2
    /\ ~opts.throwOnErrors
    /\ Cardinality(failedSymbols) >= 2
    /\ FreshRun.out # <<>>
    /\ out = FreshRun.out \o FreshRun.out
====
